---------------------------- MODULE Spec2Model ----------------------------
(***************************************************************************)
(* A model of subnet-cli's P-chain client: the key's ownership matching,   *)
(* coin selection (stake), and the four operator actions CreateSubnet,     *)
(* AddValidator, AddSubnetValidator and CreateBlockchain.                  *)
(*                                                                         *)
(* The specifications that share the module:                               *)
(*   SpecStake     one call of p.stake, one step per loop iteration;       *)
(*   SpecMatch     one call of the key's match on a drawn ownership spec;  *)
(*   SpecOps       one operator action, one step per external call;       *)
(*   SpecPoll      the confirmation checker's polling (SpecPollLive with   *)
(*                 fairness);                                              *)
(*   SpecHard      NewHard and the address selection of InitClient;        *)
(*   SpecSign      one call of HardKey.Sign;                               *)
(*   SpecLoad      one call of LoadSoft on a key file;                     *)
(*   SpecGv        one call of GetValidator;                               *)
(*   SpecRace      two operator actions of one key and the node;           *)
(*   SpecSp        one call of the key's Spends;                           *)
(*   SpecWait      one call of WaitValidator (SpecWaitLive with fairness). *)
(* A specification leaves the variables of the others at their initial     *)
(* values.                                                                 *)
(***************************************************************************)
EXTENDS Integers, Sequences, FiniteSets, TLC

VARIABLES
    \* ---- p.stake (src/unnamed/part_004:614-831)
    stakeAmt,       \* ret.stakeAmt, the stake target S
    fee,            \* fee, the amount to burn F
    now,            \* now := uint64(time.Now().Unix())
    ubs,            \* the node's GetAtomicUTXOs response, as parsed
    utxos,          \* utxos []*djtx.UTXO, the objects the two passes read
    ins,            \* ins []*djtx.TransferableInput
    returnedOuts,   \* returnedOuts []*djtx.TransferableOutput
    stakedOuts,     \* stakedOuts []*djtx.TransferableOutput
    signers,        \* signers [][]ids.ShortID
    amountStaked,   \* amountStaked
    amountBurned,   \* amountBurned
    stakeErr,       \* err returned by stake ("nil" when none)
    stakePC,        \* where the call is: fetch, pass1, pass2, check, done
    stakeIdx,       \* position in utxos of the next loop iteration (1-based)
    \* ---- the key's match (src/unnamed/part_001:143-155)
    matchOwners,    \* owners *secp256k1fx.OutputOwners
    matchTime,      \* time uint64
    matchRet,       \* what match returned: the index list and ok
    matchPC,        \* call, done
    \* ---- an operator action (src/unnamed/part_004:117-557)
    opName,         \* CreateSubnet, AddValidator, AddSubnetValidator, CreateBlockchain
    opArgs,         \* the arguments and the options (ret *Op) of the call
    networkName,    \* pc.networkName
    opPC,           \* the step the call is at
    opTrace,        \* the calls made so far, in order, each with its outcome
    opSubnetVdr,    \* what GetValidator returned for the subnet
    opPrimaryVdr,   \* what GetValidator returned for the primary network
    opTxFee,        \* the fee taken from GetTxFee (0 for AddValidator)
    opTx,           \* the transaction being built: ins, outs, stake, signers, auth, creds
    opLocalID,      \* pTx.ID(), once the transaction is signed
    opTxID,         \* the ID IssueTx returned
    opRet,          \* what the call returned: an ID and err
    \* ---- the confirmation checker (PollTx, called at src/unnamed/part_004:351)
    pollPC,         \* wait, done
    pollLog,        \* the statuses the node returned, one per poll
    pollClock,      \* the ticks elapsed
    pollDeadline,   \* the caller's deadline falls after this many ticks
    pollCancelled,  \* the caller has cancelled
    pollOutcome,    \* what the checker returned
    \* ---- the hardware key's construction and selection (src/unnamed/part_001:34-64, src/cmd/common.go:108-139)
    hardPC,         \* newHard, address, format, balance, prompt, disconnect, done
    hardIdx,        \* i, the account index tried
    hardOpen,       \* the account indices whose device connection is open
    hardRet,        \* the error returned (nil when none)
    \* ---- HardKey.Sign (src/unnamed/part_001:160-188)
    signPC,         \* marshal, hash, attach, done
    signSigs,       \* sigs, the number of credentials asked for
    signTx,         \* pTx: its credentials and its unsigned and signed bytes
    signBefore,     \* pTx as it was when Sign was called
    signSig,        \* sig, the signature the device returned
    signRet,        \* the error returned (nil when none)
    \* ---- LoadSoft (src/internal/key/soft_key.go:219-292)
    loadFile,       \* kb, the bytes of the key file
    loadPC,         \* where LoadSoft is
    loadN,          \* bytes the reader r has handed out
    loadIdx,        \* idx of checkKeyFileEnd
    loadKey,        \* the SoftKey returned
    loadRet,        \* the error returned
    \* ---- GetValidator (src/unnamed/part_004:188-247)
    gvNode,         \* nodeID, the node asked about
    gvResp,         \* the answer to GetCurrentValidators
    gvRet,          \* start, end and err returned
    gvPC,           \* where GetValidator is
    \* ---- two operator actions on one key (src/unnamed/part_004:614-831)
    raceLive,       \* the UTXOs of the key on the node
    racePC,         \* where each of the two actions is
    raceSnap,       \* utxos, the snapshot each action fetched
    raceIns,        \* ins, the inputs each action selected
    raceOuts,       \* returnedOuts of each action
    raceAfter,      \* whether the action fetched after the other's transaction was committed
    \* ---- Key.Spends (src/unnamed/part_001:72-99)
    spOutputs,      \* outputs, the UTXOs given to Spends
    spTime,         \* ret.time
    spTarget,       \* ret.targetAmount
    spFeeDeduct,    \* ret.feeDeduct
    spRet,          \* what Spends returns
    spPC,           \* where Spends is
    \* ---- WaitValidator (src/cmd/common.go:225-239)
    waitNodes,      \* nodeIDs []ids.ShortID
    waitSubnet,     \* i.subnetID
    valInfos,       \* i.valInfos, the windows recorded
    waitIdx,        \* position in nodeIDs of the node being waited for (1-based)
    waitTries,      \* lookups that failed, counted up to MaxTries
    waitPolled,     \* positions in nodeIDs a lookup was made for
    waitFound,      \* positions in nodeIDs a lookup succeeded for
    waitPC          \* lookup, sleep, done

stakeVars == <<stakeAmt, fee, now, ubs, utxos, ins, returnedOuts, stakedOuts,
               signers, amountStaked, amountBurned, stakeErr, stakePC, stakeIdx>>

matchVars == <<matchOwners, matchTime, matchRet, matchPC>>

opsVars == <<opName, opArgs, networkName, opPC, opTrace, opSubnetVdr, opPrimaryVdr,
             opTxFee, opTx, opLocalID, opTxID, opRet>>

pollVars == <<pollPC, pollLog, pollClock, pollDeadline, pollCancelled, pollOutcome>>

hardVars == <<hardPC, hardIdx, hardOpen, hardRet>>

signVars == <<signPC, signSigs, signTx, signBefore, signSig, signRet>>

loadVars == <<loadFile, loadPC, loadN, loadIdx, loadKey, loadRet>>

gvVars == <<gvNode, gvResp, gvRet, gvPC>>

raceVars == <<raceLive, racePC, raceSnap, raceIns, raceOuts, raceAfter>>

spVars == <<spOutputs, spTime, spTarget, spFeeDeduct, spRet, spPC>>

waitVars == <<waitNodes, waitSubnet, valInfos, waitIdx, waitTries, waitPolled, waitFound, waitPC>>

vars == <<stakeVars, matchVars, opsVars, pollVars, hardVars, signVars, loadVars, gvVars, raceVars, spVars, waitVars>>

\* What the actions of one specification leave alone.
notStakeVars == <<matchVars, opsVars, pollVars, hardVars, signVars, loadVars, gvVars, raceVars, spVars, waitVars>>
notMatchVars == <<stakeVars, opsVars, pollVars, hardVars, signVars, loadVars, gvVars, raceVars, spVars, waitVars>>
notOpsVars == <<stakeVars, matchVars, pollVars, hardVars, signVars, loadVars, gvVars, raceVars, spVars, waitVars>>
notPollVars == <<stakeVars, matchVars, opsVars, hardVars, signVars, loadVars, gvVars, raceVars, spVars, waitVars>>
notHardVars == <<stakeVars, matchVars, opsVars, pollVars, signVars, loadVars, gvVars, raceVars, spVars, waitVars>>
notSignVars == <<stakeVars, matchVars, opsVars, pollVars, hardVars, loadVars, gvVars, raceVars, spVars, waitVars>>
notLoadVars == <<stakeVars, matchVars, opsVars, pollVars, hardVars, signVars, gvVars, raceVars, spVars, waitVars>>
notGvVars == <<stakeVars, matchVars, opsVars, pollVars, hardVars, signVars, loadVars, raceVars, spVars, waitVars>>
notRaceVars == <<stakeVars, matchVars, opsVars, pollVars, hardVars, signVars, loadVars, gvVars, spVars, waitVars>>
notSpVars == <<stakeVars, matchVars, opsVars, pollVars, hardVars, signVars, loadVars, gvVars, raceVars, waitVars>>
notWaitVars == <<stakeVars, matchVars, opsVars, pollVars, hardVars, signVars, loadVars, gvVars, raceVars, spVars>>

-----------------------------------------------------------------------------
(* Bounds of the model.                                                    *)

\* Longest UTXO list the node returns.
MaxUTXOs == 2
\* Largest amount of one UTXO, and largest stake target and fee.
MaxAmount == 2
\* Latest clock value sampled by time.Now().
MaxNow == 1
\* Longest address list of an ownership spec given to match; thresholds go
\* one beyond it.
MaxAddrs == 4
\* Latest lock time and call time given to match.
MaxLocktime == 2
\* The largest uint64: the sums Spends computes are taken modulo
\* MaxUint64 + 1.
MaxUint64 == 7

-----------------------------------------------------------------------------
(* Identifiers.                                                            *)

\* pc.assetID, the native asset, and some other asset.
assetID == "DJTX"
otherAssetID == "OTHER"

\* h.shortAddr, the one address the key holds; k.Addresses()[0].
shortAddr == "k"
\* An address the key does not hold.
otherAddr == "x"

\* ids.ID as a byte string (shortened to two bytes), with an output index.
UTXOIDs ==
    { [TxID |-> <<0, 1>>, OutputIndex |-> 0],
      [TxID |-> <<0, 1>>, OutputIndex |-> 1],
      [TxID |-> <<1, 0>>, OutputIndex |-> 0] }

Range(s) == { s[k] : k \in 1..Len(s) }

RECURSIVE SumSeq(_)
SumSeq(s) == IF s = <<>> THEN 0 ELSE Head(s) + SumSeq(Tail(s))

Min64(a, b) == IF a < b THEN a ELSE b

-----------------------------------------------------------------------------
(* Outputs and ownership specs.                                            *)

OutputOwners(locktime, threshold, addrs) ==
    [Locktime |-> locktime, Threshold |-> threshold, Addrs |-> addrs]

TransferOutput(amt, owners) ==
    [type |-> "TransferOutput", Amt |-> amt, OutputOwners |-> owners]

MintOutput(owners) ==
    [type |-> "MintOutput", OutputOwners |-> owners]

StakeableLockOut(locktime, inner) ==
    [type |-> "StakeableLockOut", Locktime |-> locktime, TransferableOut |-> inner]

TransferableOutput(asset, out) == [Asset |-> asset, Out |-> out]

\* The amount an output carries (Amount() of the output, through the lock).
OutAmount(out) ==
    IF out.type = "StakeableLockOut" THEN out.TransferableOut.Amt
    ELSE IF out.type = "TransferOutput" THEN out.Amt
    ELSE 0

-----------------------------------------------------------------------------
(* The key: match, lspend, spend, Spends.                                  *)

\* The loop of match: positions are 0-based as in the code, Addrs is a
\* TLA+ sequence, hence addrs[i + 1].
RECURSIVE matchLoop(_, _, _)
matchLoop(owners, i, sigs) ==
    IF i < Len(owners.Addrs) /\ Len(sigs) < owners.Threshold
    THEN matchLoop(owners, i + 1,
                   IF owners.Addrs[i + 1] = shortAddr THEN Append(sigs, i) ELSE sigs)
    ELSE sigs

\* match with the lock-time test off by one.
matchLockInclusive(owners, time) ==
    IF time <= owners.Locktime
    THEN [sigs |-> <<>>, ok |-> FALSE]
    ELSE [sigs |-> matchLoop(owners, 0, <<>>),
          ok |-> Len(matchLoop(owners, 0, <<>>)) = owners.Threshold]

\* The result of match once the loop has collected sigs.
matchResult(owners, sigs) == [sigs |-> sigs, ok |-> Len(sigs) = owners.Threshold]

match(owners, time) ==
    IF time < owners.Locktime
    THEN [sigs |-> <<>>, ok |-> FALSE]
    ELSE matchResult(owners, matchLoop(owners, 0, <<>>))

\* The signer set of one spent output: the address behind each signature
\* index, in index order.
SpendSigners(owners, sigs) == [k \in 1..Len(sigs) |-> owners.Addrs[sigs[k] + 1]]

\* lspend on a MintOutput and on a TransferOutput, given the result m of
\* match on the output's owners.
lspendMint(out, m) ==
    IF m.ok
    THEN [err |-> "nil",
          in |-> [type |-> "Input", SigIndices |-> m.sigs],
          signers |-> SpendSigners(out.OutputOwners, m.sigs)]
    ELSE [err |-> "ErrCantSpend"]

lspendTransfer(out, m) ==
    IF m.ok
    THEN [err |-> "nil",
          in |-> [type |-> "TransferInput", Amt |-> out.Amt, SigIndices |-> m.sigs],
          signers |-> SpendSigners(out.OutputOwners, m.sigs)]
    ELSE [err |-> "ErrCantSpend"]

\* lspend: the input made from an output, or an error.
lspend(out, time) ==
    IF out.type = "MintOutput" THEN lspendMint(out, match(out.OutputOwners, time))
    ELSE IF out.type = "TransferOutput"
    THEN lspendTransfer(out, match(out.OutputOwners, time))
    ELSE [err |-> "unexpected type"]

\* spend: lspend, then the assertion that the input is a TransferableIn
\* (a secp256k1fx.Input, made from a MintOutput, is not one).
spendAssert(inputf) ==
    IF inputf.err # "nil" THEN inputf
    ELSE IF inputf.in.type # "TransferInput" THEN [err |-> "ErrInvalidType"]
    ELSE inputf

spend(output, time) == spendAssert(lspend(output.Out, time))

\* innerSortTransferableInputsWithSigners: Less, Swap and sort.Sort.
RECURSIVE bytesCompare(_, _)
bytesCompare(a, b) ==
    IF a = <<>> /\ b = <<>> THEN 0
    ELSE IF a = <<>> THEN -1
    ELSE IF b = <<>> THEN 1
    ELSE IF Head(a) < Head(b) THEN -1
    ELSE IF Head(a) > Head(b) THEN 1
    ELSE bytesCompare(Tail(a), Tail(b))

\* Less on two inputs (InputSource() is the input's UTXOID), given the
\* result c of bytes.Compare on the two transaction IDs.
lessSwitch(c, iIndex, jIndex) ==
    IF c = -1 THEN TRUE
    ELSE IF c = 0 THEN iIndex < jIndex
    ELSE FALSE

\* Less without the output-index tie-break.
InputLessByTxID(x, y) == bytesCompare(x.UTXOID.TxID, y.UTXOID.TxID) = -1

InputLess(x, y) ==
    lessSwitch(bytesCompare(x.UTXOID.TxID, y.UTXOID.TxID),
               x.UTXOID.OutputIndex, y.UTXOID.OutputIndex)

Less(data, i, j) == InputLess(data.ins[i], data.ins[j])

\* Swap that leaves the signers where they were.
SwapOnlyInputs(data, i, j) ==
    [data EXCEPT !.ins = [data.ins EXCEPT ![i] = data.ins[j], ![j] = data.ins[i]]]

Swap(data, i, j) ==
    [ins |-> [data.ins EXCEPT ![i] = data.ins[j], ![j] = data.ins[i]],
     signers |-> [data.signers EXCEPT ![i] = data.signers[j], ![j] = data.signers[i]]]

\* sort.Sort on a short slice is an insertion sort over Less and Swap.
RECURSIVE insertDown(_, _)
insertDown(data, j) ==
    IF j > 1 /\ Less(data, j, j - 1)
    THEN insertDown(Swap(data, j, j - 1), j - 1)
    ELSE data

RECURSIVE insertionSort(_, _)
insertionSort(data, i) ==
    IF i > Len(data.ins) THEN data
    ELSE insertionSort(insertDown(data, i), i + 1)

SortTransferableInputsWithSigners(inputs, sgn) ==
    insertionSort([ins |-> inputs, signers |-> sgn], 2)

\* Spends: one TransferableInput per output the key can spend, in the order
\* given, stopping once the total exceeds targetAmount + feeDeduct when a
\* target is given; then the coupled sort.

\* The body of the loop on output out, given the result r of spend.
spendsAppend(acc, out, r) ==
    IF r.err # "nil" THEN acc
    ELSE [total |-> (acc.total + r.in.Amt) % (MaxUint64 + 1),
          inputs |-> Append(acc.inputs,
              [UTXOID |-> out.UTXOID, Asset |-> out.Asset, In |-> r.in]),
          signers |-> Append(acc.signers, r.signers)]

spendsBody(acc, out, time) == spendsAppend(acc, out, spend(out, time))

\* The break test, made after an output was spent (acc grew from prev).
spendsBreak(acc, prev, targetAmount, feeDeduct) ==
    /\ Len(acc.inputs) > Len(prev.inputs)
    /\ targetAmount > 0
    /\ acc.total > (targetAmount + feeDeduct) % (MaxUint64 + 1)

RECURSIVE spendsLoop(_, _, _, _, _, _)

\* The loop after its body on outputs[i] gave nxt.
spendsAdvance(outputs, i, time, targetAmount, feeDeduct, acc, nxt) ==
    IF spendsBreak(nxt, acc, targetAmount, feeDeduct) THEN nxt
    ELSE spendsLoop(outputs, i + 1, time, targetAmount, feeDeduct, nxt)

spendsLoop(outputs, i, time, targetAmount, feeDeduct, acc) ==
    IF i > Len(outputs) THEN acc
    ELSE spendsAdvance(outputs, i, time, targetAmount, feeDeduct, acc,
                       spendsBody(acc, outputs[i], time))

spendsResult(total, sorted) ==
    [total |-> total, inputs |-> sorted.ins, signers |-> sorted.signers]

spendsSorted(acc) ==
    spendsResult(acc.total, SortTransferableInputsWithSigners(acc.inputs, acc.signers))

Spends(outputs, time, targetAmount, feeDeduct) ==
    spendsSorted(spendsLoop(outputs, 1, time, targetAmount, feeDeduct,
                            [total |-> 0, inputs |-> <<>>, signers |-> <<>>]))

-----------------------------------------------------------------------------
(* djtx.SortTransferableOutputs: by the codec's serialized bytes.           *)

\* Type IDs of the codec: the position at which internal/codec registers
\* the type.
TransferOutputTypeID == 7
StakeableLockOutTypeID == 22

\* The byte order of the two addresses of the model.
AddrBytes(a) == IF a = shortAddr THEN 1 ELSE 2

\* The byte order of the asset IDs of the model.
AssetBytes(a) == IF a = assetID THEN 1 ELSE 2

\* The serialized form of an output, one number per fixed-width field: the
\* type ID, then the fields in declaration order.
RECURSIVE OutBytes(_)
OutBytes(out) ==
    IF out.type = "StakeableLockOut"
    THEN <<StakeableLockOutTypeID, out.Locktime>> \o OutBytes(out.TransferableOut)
    ELSE <<TransferOutputTypeID, out.Amt, out.OutputOwners.Locktime,
           out.OutputOwners.Threshold, Len(out.OutputOwners.Addrs)>>
         \o [k \in 1..Len(out.OutputOwners.Addrs) |-> AddrBytes(out.OutputOwners.Addrs[k])]

TransferableOutputBytes(o) == <<AssetBytes(o.Asset)>> \o OutBytes(o.Out)

OutputLess(x, y) ==
    bytesCompare(TransferableOutputBytes(x), TransferableOutputBytes(y)) = -1

RECURSIVE insertDownOut(_, _)
insertDownOut(outs, j) ==
    IF j > 1 /\ OutputLess(outs[j], outs[j - 1])
    THEN insertDownOut([outs EXCEPT ![j] = outs[j - 1], ![j - 1] = outs[j]], j - 1)
    ELSE outs

RECURSIVE insertionSortOut(_, _)
insertionSortOut(outs, i) ==
    IF i > Len(outs) THEN outs
    ELSE insertionSortOut(insertDownOut(outs, i), i + 1)

SortTransferableOutputs(outs) == insertionSortOut(outs, 2)

-----------------------------------------------------------------------------
(* p.stake: the bodies of its two loops and its final checks, on the       *)
(* record L of the call's local variables.                                 *)

\* The change output: Locktime 0, Threshold 1, to ret.changeAddr, which
\* stake defaults to k.Addresses()[0].
changeAddr == shortAddr

ChangeOutput(amt) ==
    TransferableOutput(assetID,
        TransferOutput(amt, OutputOwners(0, 1, <<changeAddr>>)))

\* The first loop on a stake-locked output out that gave input in with signer
\* sets inputSigners, staking amountToStake of it.
pass1Emit(L, out, in, inputSigners, amountToStake) ==
    [L EXCEPT
       !.amountStaked = L.amountStaked + amountToStake,
       !.stakedOuts = Append(L.stakedOuts,
           TransferableOutput(assetID,
               StakeableLockOut(out.Locktime,
                   TransferOutput(amountToStake, out.TransferableOut.OutputOwners)))),
       !.returnedOuts =
           IF in.In.Amt - amountToStake > 0
           THEN Append(L.returnedOuts, ChangeOutput(in.In.Amt - amountToStake))
           ELSE L.returnedOuts,
       !.ins = Append(L.ins, in),
       !.signers = L.signers \o inputSigners]

\* The first loop once Spends has answered sp for the output.
pass1Spent(L, out, sp, S) ==
    IF Len(sp.inputs) = 0 THEN L
    ELSE pass1Emit(L, out, sp.inputs[1], sp.signers,
                   Min64(S - L.amountStaked, sp.inputs[1].In.Amt))

\* The first loop on one UTXO.
pass1Utxo(L, utxo, S, nowv) ==
    IF utxo.Asset # assetID THEN L
    ELSE IF utxo.Out.type # "StakeableLockOut" THEN L
    ELSE IF utxo.Out.Locktime <= nowv THEN L
    ELSE IF utxo.Out.TransferableOut.type # "TransferOutput" THEN L
    ELSE pass1Spent(L, utxo.Out, Spends(<<utxo>>, nowv, 0, 0), S)

\* One iteration of the first loop (staking from stake-locked outputs), past
\* its break test.
pass1Body(L, i, S, nowv) == pass1Utxo(L, L.utxos[i], S, nowv)

\* What the second loop does to the UTXO object before spending it: an
\* output whose stake lock has elapsed is replaced by the output it wraps.
Unwrap(utxo) ==
    IF utxo.Out.type = "StakeableLockOut"
    THEN [utxo EXCEPT !.Out = utxo.Out.TransferableOut]
    ELSE utxo

\* The second loop on an input in with signer sets inputSigners, burning
\* amountToBurn of it and staking amountToStake.
pass2Emit(L, in, inputSigners, amountToBurn, amountToStake) ==
    [L EXCEPT
       !.amountBurned = L.amountBurned + amountToBurn,
       !.amountStaked = L.amountStaked + amountToStake,
       !.stakedOuts =
           IF amountToStake > 0
           THEN Append(L.stakedOuts, ChangeOutput(amountToStake))
           ELSE L.stakedOuts,
       !.returnedOuts =
           IF in.In.Amt - amountToBurn - amountToStake > 0
           THEN Append(L.returnedOuts,
                       ChangeOutput(in.In.Amt - amountToBurn - amountToStake))
           ELSE L.returnedOuts,
       !.ins = Append(L.ins, in),
       !.signers = L.signers \o inputSigners]

\* The second loop once amountToBurn is known, all that is left staked.
pass2BurnStakesRest(L, in, inputSigners, S, amountToBurn) ==
    pass2Emit(L, in, inputSigners, amountToBurn, in.In.Amt - amountToBurn)

\* The second loop once amountToBurn is known: the stake takes what is left.
pass2Burn(L, in, inputSigners, S, amountToBurn) ==
    pass2Emit(L, in, inputSigners, amountToBurn,
              Min64(S - L.amountStaked, in.In.Amt - amountToBurn))

\* The second loop once Spends has answered sp for the output.
pass2Spent(L, sp, S, F) ==
    IF Len(sp.inputs) = 0 THEN L
    ELSE pass2Burn(L, sp.inputs[1], sp.signers, S,
                   Min64(F - L.amountBurned, sp.inputs[1].In.Amt))

\* The second loop on position i, whose UTXO object is now utxo.
pass2Utxo(L, i, utxo, S, F, nowv) ==
    pass2Spent([L EXCEPT !.utxos[i] = utxo], Spends(<<utxo>>, nowv, 0, 0), S, F)

\* One iteration of the second loop, stake locks not looked at.
pass2BodyTakesLocked(L, i, S, F, nowv) ==
    IF L.utxos[i].Asset # assetID THEN L
    ELSE pass2Utxo(L, i, Unwrap(L.utxos[i]), S, F, nowv)

\* One iteration of the second loop (burning the fee, then staking), past
\* its break test.
pass2Body(L, i, S, F, nowv) ==
    IF L.utxos[i].Asset # assetID THEN L
    ELSE IF L.utxos[i].Out.type = "StakeableLockOut" /\ L.utxos[i].Out.Locktime > nowv
    THEN L
    ELSE pass2Utxo(L, i, Unwrap(L.utxos[i]), S, F, nowv)

\* The tests made at the top of each loop iteration.
pass1Break(L, S) == L.amountStaked >= S
pass2Break(L, S, F) == L.amountStaked >= S /\ L.amountBurned >= F

\* The checks after the loops, a counter at zero being short as well.
stakeCheckFromZero(L, S, F) ==
    IF L.amountStaked < S
    THEN "ErrInsufficientBalanceForStakeAmount"
    ELSE IF L.amountBurned < F
    THEN "ErrInsufficientBalanceForGasFee"
    ELSE "nil"

\* The checks after the loops: the error returned, or "nil".
stakeCheck(L, S, F) ==
    IF L.amountStaked > 0 /\ L.amountStaked < S
    THEN "ErrInsufficientBalanceForStakeAmount"
    ELSE IF L.amountBurned > 0 /\ L.amountBurned < F
    THEN "ErrInsufficientBalanceForGasFee"
    ELSE "nil"

\* The three sorts and the successful return.
stakeSorted(L, sorted) ==
    [L EXCEPT !.ins = sorted.ins, !.signers = sorted.signers,
              !.returnedOuts = SortTransferableOutputs(L.returnedOuts),
              !.stakedOuts = SortTransferableOutputs(L.stakedOuts),
              !.err = "nil"]

\* The return with error e: nil lists.
stakeFailed(L, e) ==
    [L EXCEPT !.ins = <<>>, !.returnedOuts = <<>>, !.stakedOuts = <<>>,
              !.signers = <<>>, !.err = e]

\* What stake returns after the loops.
stakeReturn(L, S, F) ==
    IF stakeCheck(L, S, F) # "nil"
    THEN stakeFailed(L, stakeCheck(L, S, F))
    ELSE stakeSorted(L, SortTransferableInputsWithSigners(L.ins, L.signers))

\* The locals of stake once the response has been parsed.
stakeLocals(parsed) ==
    [utxos |-> parsed, ins |-> <<>>, returnedOuts |-> <<>>, stakedOuts |-> <<>>,
     signers |-> <<>>, amountStaked |-> 0, amountBurned |-> 0, err |-> "nil"]

RECURSIVE pass1Loop(_, _, _, _)
pass1Loop(L, i, S, nowv) ==
    IF i > Len(L.utxos) \/ pass1Break(L, S) THEN L
    ELSE pass1Loop(pass1Body(L, i, S, nowv), i + 1, S, nowv)

RECURSIVE pass2Loop(_, _, _, _, _)
pass2Loop(L, i, S, F, nowv) ==
    IF i > Len(L.utxos) \/ pass2Break(L, S, F) THEN L
    ELSE pass2Loop(pass2Body(L, i, S, F, nowv), i + 1, S, F, nowv)

\* The whole of stake on a parsed response.
stake(parsed, S, F, nowv) ==
    stakeReturn(pass2Loop(pass1Loop(stakeLocals(parsed), 1, S, nowv), 1, S, F, nowv),
                S, F)

-----------------------------------------------------------------------------
(* SpecStake: one call of stake.                                           *)

\* Lock times on either side of the clock values 1..MaxNow.
ElapsedLock == MaxNow
FutureLock == MaxNow + 1

\* Ownership specs of the fetched outputs.
OwnersOne == OutputOwners(0, 1, <<shortAddr>>)
OwnersTwo == OutputOwners(0, 2, <<shortAddr, otherAddr, shortAddr>>)
OwnersOther == OutputOwners(0, 1, <<otherAddr>>)
OwnersLocked == OutputOwners(FutureLock, 1, <<shortAddr>>)

\* The outputs a fetched UTXO may carry, with their asset.
FetchedOuts ==
    { TransferableOutput(assetID, TransferOutput(a, OwnersOne)) : a \in 1..MaxAmount }
    \cup
    { TransferableOutput(assetID, TransferOutput(1, OwnersTwo)),
      TransferableOutput(assetID, TransferOutput(1, OwnersOther)),
      TransferableOutput(assetID, TransferOutput(1, OwnersLocked)),
      TransferableOutput(assetID,
          StakeableLockOut(FutureLock, TransferOutput(MaxAmount, OwnersOne))),
      TransferableOutput(assetID,
          StakeableLockOut(ElapsedLock, TransferOutput(1, OwnersOne))),
      TransferableOutput(assetID, MintOutput(OwnersOne)),
      TransferableOutput(otherAssetID, TransferOutput(1, OwnersOne)) }

FetchedUTXOs ==
    { [UTXOID |-> id, Asset |-> o.Asset, Out |-> o.Out] :
        id \in UTXOIDs, o \in FetchedOuts }

\* The node's responses: lists of UTXOs, no UTXO ID twice (the node's UTXO
\* set is keyed by UTXO ID).
UTXOLists ==
    UNION { { s \in [1..n -> FetchedUTXOs] :
                \A a, b \in 1..n : a < b => s[a].UTXOID # s[b].UTXOID } :
            n \in 0..MaxUTXOs }

\* The other specifications' variables, which stake leaves alone.
MatchIdle ==
    /\ matchOwners = OwnersOne
    /\ matchTime = 0
    /\ matchRet = [sigs |-> <<>>, ok |-> FALSE]
    /\ matchPC = "idle"

\* No operator action is running.
OpsIdle ==
    /\ opName = "none"
    /\ opArgs = [subnetID |-> "", nodeID |-> "", vmID |-> "", start |-> 0, end |-> 0,
                 stakeAmt |-> 0, dryMode |-> FALSE, poll |-> FALSE]
    /\ networkName = "local"
    /\ opPC = "idle"
    /\ opTrace = <<>>
    /\ opSubnetVdr = [start |-> 0, end |-> 0, err |-> "none"]
    /\ opPrimaryVdr = [start |-> 0, end |-> 0, err |-> "none"]
    /\ opTxFee = 0
    /\ opTx = [ins |-> <<>>, outs |-> <<>>, stake |-> <<>>, signers |-> <<>>,
               auth |-> <<>>, creds |-> <<>>]
    /\ opLocalID = "none"
    /\ opTxID = "none"
    /\ opRet = [id |-> "", err |-> "none"]

Locals ==
    [utxos |-> utxos, ins |-> ins, returnedOuts |-> returnedOuts,
     stakedOuts |-> stakedOuts, signers |-> signers,
     amountStaked |-> amountStaked, amountBurned |-> amountBurned,
     err |-> stakeErr]

SetLocals(L) ==
    /\ utxos' = L.utxos
    /\ ins' = L.ins
    /\ returnedOuts' = L.returnedOuts
    /\ stakedOuts' = L.stakedOuts
    /\ signers' = L.signers
    /\ amountStaked' = L.amountStaked
    /\ amountBurned' = L.amountBurned
    /\ stakeErr' = L.err

StakeIdle ==
    /\ stakeAmt = 0
    /\ fee = 0
    /\ now = 0
    /\ ubs = <<>>
    /\ utxos = <<>>
    /\ ins = <<>>
    /\ returnedOuts = <<>>
    /\ stakedOuts = <<>>
    /\ signers = <<>>
    /\ amountStaked = 0
    /\ amountBurned = 0
    /\ stakeErr = "nil"
    /\ stakePC = "idle"
    /\ stakeIdx = 0

\* No confirmation is being polled for.
PollIdle ==
    /\ pollPC = "idle"
    /\ pollLog = <<>>
    /\ pollClock = 0
    /\ pollDeadline = 0
    /\ pollCancelled = FALSE
    /\ pollOutcome = "none"

\* The hardware key's construction and selection (src/unnamed/part_001:34-64, src/cmd/common.go:108-139): not running.
HardIdle ==
    /\ hardPC = "idle"
    /\ hardIdx = 0
    /\ hardOpen = {}
    /\ hardRet = "none"

\* HardKey.Sign (src/unnamed/part_001:160-188): not running.
SignIdle ==
    /\ signPC = "idle"
    /\ signSigs = 0
    /\ signTx = [Creds |-> <<>>, unsignedBytes |-> <<>>, bytes |-> <<>>]
    /\ signBefore = [Creds |-> <<>>, unsignedBytes |-> <<>>, bytes |-> <<>>]
    /\ signSig = "none"
    /\ signRet = "none"

\* LoadSoft (src/internal/key/soft_key.go:219-292): not running.
LoadIdle ==
    /\ loadFile = <<>>
    /\ loadPC = "idle"
    /\ loadN = 0
    /\ loadIdx = 0
    /\ loadKey = [via |-> "none", raw |-> <<>>, enc |-> <<>>]
    /\ loadRet = "none"

\* GetValidator (src/unnamed/part_004:188-247): not running.
GvIdle ==
    /\ gvNode = ""
    /\ gvResp = [err |-> "nil", vs |-> <<>>]
    /\ gvRet = [start |-> 0, end |-> 0, err |-> "none"]
    /\ gvPC = "idle"

\* Two operator actions on one key (src/unnamed/part_004:614-831): not running.
RaceIdle ==
    /\ raceLive = {}
    /\ racePC = <<"idle", "idle">>
    /\ raceSnap = <<<<>>, <<>>>>
    /\ raceIns = <<<<>>, <<>>>>
    /\ raceOuts = <<<<>>, <<>>>>
    /\ raceAfter = <<FALSE, FALSE>>

\* Key.Spends (src/unnamed/part_001:72-99): not running.
SpIdle ==
    /\ spOutputs = <<>>
    /\ spTime = 0
    /\ spTarget = 0
    /\ spFeeDeduct = 0
    /\ spRet = [total |-> 0, inputs |-> <<>>, signers |-> <<>>]
    /\ spPC = "idle"

\* WaitValidator (src/cmd/common.go:225-239): not running.
WaitIdle ==
    /\ waitNodes = <<>>
    /\ waitSubnet = ""
    /\ valInfos = {}
    /\ waitIdx = 0
    /\ waitTries = 0
    /\ waitPolled = {}
    /\ waitFound = {}
    /\ waitPC = "idle"

\* Every part of the program but the one named is idle.
OthersIdle(part) ==
    /\ IF part = "stake" THEN TRUE ELSE StakeIdle
    /\ IF part = "match" THEN TRUE ELSE MatchIdle
    /\ IF part = "ops" THEN TRUE ELSE OpsIdle
    /\ IF part = "poll" THEN TRUE ELSE PollIdle
    /\ IF part = "hard" THEN TRUE ELSE HardIdle
    /\ IF part = "sign" THEN TRUE ELSE SignIdle
    /\ IF part = "load" THEN TRUE ELSE LoadIdle
    /\ IF part = "gv" THEN TRUE ELSE GvIdle
    /\ IF part = "race" THEN TRUE ELSE RaceIdle
    /\ IF part = "sp" THEN TRUE ELSE SpIdle
    /\ IF part = "wait" THEN TRUE ELSE WaitIdle

\* stake is entered with a stake target and a fee.
StakeInit ==
    /\ OthersIdle("stake")
    /\ stakeAmt \in 0..MaxAmount
    /\ fee \in 0..MaxAmount
    /\ now = 0
    /\ ubs = <<>>
    /\ utxos = <<>>
    /\ ins = <<>>
    /\ returnedOuts = <<>>
    /\ stakedOuts = <<>>
    /\ signers = <<>>
    /\ amountStaked = 0
    /\ amountBurned = 0
    /\ stakeErr = "nil"
    /\ stakePC = "fetch"
    /\ stakeIdx = 0

\* GetAtomicUTXOs fails, or a UTXO fails to parse: stake returns the error.
StakeFetchFails ==
    /\ stakePC = "fetch"
    /\ \E e \in {"ErrGetAtomicUTXOs", "ErrParseUTXO"} : stakeErr' = e
    /\ stakePC' = "done"
    /\ UNCHANGED <<stakeAmt, fee, now, ubs, utxos, ins, returnedOuts, stakedOuts,
                   signers, amountStaked, amountBurned, stakeIdx>>
    /\ UNCHANGED notStakeVars

\* GetAtomicUTXOs answers, the clock is read and the UTXOs are parsed.
StakeFetch ==
    /\ stakePC = "fetch"
    /\ \E response \in UTXOLists, t \in 1..MaxNow :
          /\ ubs' = response
          /\ now' = t
          /\ SetLocals(stakeLocals(response))
    /\ stakePC' = "pass1"
    /\ stakeIdx' = 1
    /\ UNCHANGED <<stakeAmt, fee>>
    /\ UNCHANGED notStakeVars

\* One iteration of the first loop, or its end.
StakePass1 ==
    /\ stakePC = "pass1"
    /\ IF stakeIdx > Len(utxos) \/ pass1Break(Locals, stakeAmt)
       THEN /\ stakePC' = "pass2"
            /\ stakeIdx' = 1
            /\ UNCHANGED <<utxos, ins, returnedOuts, stakedOuts, signers,
                           amountStaked, amountBurned, stakeErr>>
       ELSE /\ SetLocals(pass1Body(Locals, stakeIdx, stakeAmt, now))
            /\ stakeIdx' = stakeIdx + 1
            /\ stakePC' = "pass1"
    /\ UNCHANGED <<stakeAmt, fee, now, ubs>>
    /\ UNCHANGED notStakeVars

\* One iteration of the second loop, or its end.
StakePass2 ==
    /\ stakePC = "pass2"
    /\ IF stakeIdx > Len(utxos) \/ pass2Break(Locals, stakeAmt, fee)
       THEN /\ stakePC' = "check"
            /\ UNCHANGED <<utxos, ins, returnedOuts, stakedOuts, signers,
                           amountStaked, amountBurned, stakeErr, stakeIdx>>
       ELSE /\ SetLocals(pass2Body(Locals, stakeIdx, stakeAmt, fee, now))
            /\ stakeIdx' = stakeIdx + 1
            /\ stakePC' = "pass2"
    /\ UNCHANGED <<stakeAmt, fee, now, ubs>>
    /\ UNCHANGED notStakeVars

\* The checks after the loops, the three sorts and the return.
StakeReturn ==
    /\ stakePC = "check"
    /\ SetLocals(stakeReturn(Locals, stakeAmt, fee))
    /\ stakePC' = "done"
    /\ UNCHANGED <<stakeAmt, fee, now, ubs, stakeIdx>>
    /\ UNCHANGED notStakeVars

StakeNext ==
    \/ StakeFetchFails
    \/ StakeFetch
    \/ StakePass1
    \/ StakePass2
    \/ StakeReturn

SpecStake == StakeInit /\ [][StakeNext]_vars

-----------------------------------------------------------------------------
(* Properties of stake, checked under SpecStake.                           *)

InputAmounts(inputs) == SumSeq([k \in 1..Len(inputs) |-> inputs[k].In.Amt])
OutputAmounts(outs) == SumSeq([k \in 1..Len(outs) |-> OutAmount(outs[k].Out)])

\* stake has returned, without error.
StakeSucceeded == stakePC = "done" /\ stakeErr = "nil"

\* stake has returned after the node answered with a list that parsed.
StakeRanToEnd ==
    stakePC = "done" /\ stakeErr \notin {"ErrGetAtomicUTXOs", "ErrParseUTXO"}

\* The fetched UTXO with the given ID, and its position in the response.
FetchedUTXO(id) == CHOOSE u \in Range(ubs) : u.UTXOID = id
FetchedPos(id) == CHOOSE k \in 1..Len(ubs) : ubs[k].UTXOID = id

\* The value of a fetched UTXO that the fee can be paid from: native asset,
\* no stake lock in the future, spendable by the key at the sampled time.
UnlockedSpendable(u) ==
    /\ u.Asset = assetID
    /\ ~(u.Out.type = "StakeableLockOut" /\ u.Out.Locktime > now)
    /\ LET o == IF u.Out.type = "StakeableLockOut" THEN u.Out.TransferableOut
                ELSE u.Out
       IN  /\ o.type = "TransferOutput"
           /\ now >= o.OutputOwners.Locktime
           /\ Cardinality({k \in 1..Len(o.OutputOwners.Addrs) :
                             o.OutputOwners.Addrs[k] = shortAddr})
                 >= o.OutputOwners.Threshold

UnlockedSpendableValue ==
    SumSeq([k \in 1..Len(ubs) |->
              IF UnlockedSpendable(ubs[k]) THEN OutAmount(ubs[k].Out) ELSE 0])

\* C1: whenever stake returns without error, the amounts of the staked
\* outputs sum to exactly the stake target S.
C1_StakedSumIsTarget ==
    StakeSucceeded => OutputAmounts(stakedOuts) = stakeAmt

\* C2: whenever stake returns without error, the burn is exact:
\* sum(selected inputs) - sum(returned outputs) - S = F.
C2_BurnIsExact ==
    StakeSucceeded =>
        InputAmounts(ins) - OutputAmounts(returnedOuts) - stakeAmt = fee

\* C3: with S = 0 and less unlocked spendable native value than the fee F
\* (none at all included), stake fails with the insufficient-fee-balance
\* error and returns no inputs and no outputs.
C3_ShortOfFeeFails ==
    (StakeRanToEnd /\ stakeAmt = 0 /\ UnlockedSpendableValue < fee) =>
        /\ stakeErr = "ErrInsufficientBalanceForGasFee"
        /\ ins = <<>> /\ returnedOuts = <<>> /\ stakedOuts = <<>> /\ signers = <<>>

\* The signer set produced when the fetched UTXO u is spent: by the first
\* loop on the output as fetched, by the second on the output freed of an
\* elapsed stake lock; one address per required signature.
ProducedSigners(u) ==
    LET o == IF u.Out.type = "StakeableLockOut" THEN u.Out.TransferableOut
             ELSE u.Out
    IN  [k \in 1..o.OutputOwners.Threshold |-> shortAddr]

\* C5: the input list and the signer list have the same length, and
\* signers[i] is the signer set produced when inputs[i] was spent, before and
\* after the sort.
C5_SignersAligned ==
    /\ Len(ins) = Len(signers)
    /\ \A k \in 1..Len(ins) :
          signers[k] = ProducedSigners(FetchedUTXO(ins[k].UTXOID))

\* C5 witness: stake returned two inputs with different signer sets, in the
\* opposite of the order in which the loops consumed them.
C5_Witness ==
    /\ StakeSucceeded
    /\ Len(ins) = 2
    /\ signers[1] # signers[2]
    /\ FetchedPos(ins[1].UTXOID) > FetchedPos(ins[2].UTXOID)

\* (transaction ID bytes, output index) of a before that of b.
SourceBefore(a, b) ==
    \/ \E k \in 1..Len(a.TxID) :
          /\ a.TxID[k] < b.TxID[k]
          /\ \A m \in 1..(k - 1) : a.TxID[m] = b.TxID[m]
    \/ a.TxID = b.TxID /\ a.OutputIndex < b.OutputIndex

\* C6: the input list returned by stake is in strictly ascending order of
\* (UTXO transaction ID as bytes, output index).
C6_InputsAscending ==
    StakeSucceeded =>
        \A a, b \in 1..Len(ins) :
            a < b => SourceBefore(ins[a].UTXOID, ins[b].UTXOID)

\* C6 witness: stake returned two inputs of one transaction, consumed in
\* descending order of output index.
C6_Witness ==
    /\ StakeSucceeded
    /\ Len(ins) = 2
    /\ ins[1].UTXOID.TxID = ins[2].UTXOID.TxID
    /\ FetchedPos(ins[1].UTXOID) > FetchedPos(ins[2].UTXOID)

-----------------------------------------------------------------------------
(* SpecMatch: one call of match on a drawn ownership spec.                 *)

\* Address lists of up to MaxAddrs addresses, held by the key or not.
AddrLists == UNION { [1..n -> {shortAddr, otherAddr}] : n \in 0..MaxAddrs }

MatchInit ==
    /\ OthersIdle("match")
    /\ matchOwners \in { OutputOwners(l, t, a) :
                           l \in 0..MaxLocktime, t \in 0..(MaxAddrs + 1),
                           a \in AddrLists }
    /\ matchTime \in 0..MaxLocktime
    /\ matchRet = [sigs |-> <<>>, ok |-> FALSE]
    /\ matchPC = "call"

Match ==
    /\ matchPC = "call"
    /\ matchRet' = match(matchOwners, matchTime)
    /\ matchPC' = "done"
    /\ UNCHANGED <<matchOwners, matchTime>>
    /\ UNCHANGED notMatchVars

MatchNext == Match

SpecMatch == MatchInit /\ [][MatchNext]_vars

\* The positions (0-based) of the listed addresses the key controls.
Controlled(owners) ==
    { k \in 0..(Len(owners.Addrs) - 1) : owners.Addrs[k + 1] = shortAddr }

\* C7: match returns ok = true if and only if the key controls at least T of
\* the listed addresses and t >= L; when ok, the index list has exactly T
\* entries, each the position of an address the key controls, in strictly
\* ascending position order.
C7_MatchContract ==
    matchPC = "done" =>
        /\ matchRet.ok <=>
             /\ Cardinality(Controlled(matchOwners)) >= matchOwners.Threshold
             /\ matchTime >= matchOwners.Locktime
        /\ matchRet.ok =>
             /\ Len(matchRet.sigs) = matchOwners.Threshold
             /\ \A k \in 1..Len(matchRet.sigs) :
                   matchRet.sigs[k] \in Controlled(matchOwners)
             /\ \A a, b \in 1..Len(matchRet.sigs) :
                   a < b => matchRet.sigs[a] < matchRet.sigs[b]

\* C7 witness: match succeeded at the very lock time with threshold 2, past
\* an address the key does not hold and short of one it does.
C7_Witness ==
    /\ matchPC = "done"
    /\ matchRet.ok
    /\ matchOwners.Locktime > 0
    /\ matchTime = matchOwners.Locktime
    /\ matchOwners.Threshold = 2
    /\ matchRet.sigs[1] > 0
    /\ Cardinality(Controlled(matchOwners)) > 2

-----------------------------------------------------------------------------
(* The operator actions: CreateSubnet, AddValidator, AddSubnetValidator and *)
(* CreateBlockchain.                                                        *)

\* Latest validation time, of a request and of the node's records.
MaxTime == 2
\* Longest UTXO list the node returns to the stake call of an operator action.
OpsMaxUTXOs == 1

\* ids.Empty / ids.ShortEmpty; constants.PrimaryNetworkID is ids.Empty.
Empty == ""
PrimaryNetworkID == Empty
\* The IDs a caller passes.
theSubnetID == "subnet"
theNodeID == "node"
otherNodeID == "other node"
theVMID == "vm"
\* constants.NodeIDPrefix
NodeIDPrefix == "NodeID-"
\* nodeID.PrefixedString(prefix)
PrefixedString(id, prefix) == <<prefix, id>>

\* Amounts are counted in units.Djtx.
Djtx == 1

OpNames == {"CreateSubnet", "AddValidator", "AddSubnetValidator", "CreateBlockchain"}
NetworkNames == {"mainnet", "local", "tahoe", "custom"}
Times == 0..MaxTime

\* errors.Is(err, target): a wrapped error keeps the name of what it wraps.
errorsIs(err, target) == err = target

\* ---- GetValidator

\* The decimal digits of n, as the node prints a json.Uint64.
RECURSIVE Digits(_)
Digits(n) == IF n < 10 THEN <<n>> ELSE Digits(n \div 10) \o <<n % 10>>

\* A character that is no digit.
NonDigit == 10

RECURSIVE parseDigits(_, _, _)
parseDigits(d, i, acc) ==
    IF i > Len(d) THEN acc ELSE parseDigits(d, i + 1, acc * 10 + d[i])

\* strconv.ParseInt(d, 10, 64) on a string of unsigned digits.
ParseInt(d) ==
    IF d = <<>> \/ \E k \in 1..Len(d) : d[k] >= NonDigit
    THEN [v |-> 0, err |-> "ErrSyntax"]
    ELSE [v |-> parseDigits(d, 1, 0), err |-> "nil"]

\* A JSON value of a validator record: a string or something else.
JSONString(s) == [isString |-> TRUE, s |-> s]
JSONOther == [isString |-> FALSE, s |-> <<>>]

\* An entry of the GetCurrentValidators response.
ValidatorEntry(nodeIDv, startv, endv) ==
    [isMap |-> TRUE, nodeID |-> nodeIDv, startTime |-> startv, endTime |-> endv]
NotAMap == [isMap |-> FALSE, nodeID |-> JSONOther, startTime |-> JSONOther,
            endTime |-> JSONOther]

ValidatorOf(id, s, e) ==
    ValidatorEntry(JSONString(PrefixedString(id, NodeIDPrefix)),
                   JSONString(Digits(s)), JSONString(Digits(e)))

\* The result of GetValidator.
validatorResult(s, e, err) == [start |-> s, end |-> e, err |-> err]
validatorError(err) == validatorResult(0, 0, err)

\* The loop over vs: the position of the node's record, 0 when there is none,
\* or the error met on the way.
RECURSIVE validatorLoop(_, _, _)
validatorLoop(vs, i, nodeID) ==
    IF i > Len(vs) THEN [at |-> 0, err |-> "nil"]
    ELSE IF ~vs[i].isMap THEN [at |-> 0, err |-> "ErrInvalidValidatorData"]
    ELSE IF ~vs[i].nodeID.isString THEN [at |-> 0, err |-> "ErrInvalidValidatorData"]
    ELSE IF vs[i].nodeID.s = PrefixedString(nodeID, NodeIDPrefix)
    THEN [at |-> i, err |-> "nil"]
    ELSE validatorLoop(vs, i + 1, nodeID)

\* The end time is parsed and the window returned.
validatorEnd(startv, pe) ==
    IF pe.err # "nil" THEN validatorError(pe.err)
    ELSE validatorResult(startv, pe.v, "nil")

\* The start time is parsed, then the end time read.
validatorStart(validator, ps) ==
    IF ps.err # "nil" THEN validatorError(ps.err)
    ELSE IF ~validator.endTime.isString THEN validatorError("ErrInvalidValidatorData")
    ELSE validatorEnd(ps.v, ParseInt(validator.endTime.s))

\* The record found, its start time parsed whatever it is.
validatorTimesUnchecked(validator) ==
    validatorStart(validator, ParseInt(validator.startTime.s))

\* The record found: its start time is read.
validatorTimes(validator) ==
    IF ~validator.startTime.isString THEN validatorError("ErrInvalidValidatorData")
    ELSE validatorStart(validator, ParseInt(validator.startTime.s))

validatorFound(vs, f) ==
    IF f.err # "nil" THEN validatorError(f.err)
    ELSE IF f.at = 0 THEN validatorError("ErrValidatorNotFound")
    ELSE validatorTimes(vs[f.at])

\* The subnet GetCurrentValidators is asked about.
validatorScope(rsubnetID) == IF rsubnetID # Empty THEN rsubnetID ELSE PrimaryNetworkID

\* GetValidator on the node's answer resp to GetCurrentValidators.
GetValidator(resp, nodeID) ==
    IF resp.err # "nil" THEN validatorError(resp.err)
    ELSE IF Len(resp.vs) < 1 THEN validatorError("ErrValidatorNotFound")
    ELSE validatorFound(resp.vs, validatorLoop(resp.vs, 1, nodeID))

\* The node's answers to GetCurrentValidators.
ValidatorResponses ==
    { [err |-> "ErrGetCurrentValidators", vs |-> <<>>], [err |-> "nil", vs |-> <<>>] }
    \cup
    { [err |-> "nil", vs |-> <<ValidatorOf(theNodeID, s, e)>>] :
        s \in Times, e \in Times }
    \cup
    { [err |-> "nil", vs |-> <<v>>] :
        v \in { NotAMap,
                ValidatorOf(otherNodeID, 0, MaxTime),
                ValidatorEntry(JSONOther, JSONString(Digits(0)), JSONString(Digits(0))),
                ValidatorEntry(JSONString(PrefixedString(theNodeID, NodeIDPrefix)),
                               JSONOther, JSONString(Digits(0))),
                ValidatorEntry(JSONString(PrefixedString(theNodeID, NodeIDPrefix)),
                               JSONString(<<NonDigit>>), JSONString(Digits(0))),
                ValidatorEntry(JSONString(PrefixedString(theNodeID, NodeIDPrefix)),
                               JSONString(Digits(0)), JSONOther),
                ValidatorEntry(JSONString(PrefixedString(theNodeID, NodeIDPrefix)),
                               JSONString(Digits(0)), JSONString(<<>>)) } }
    \cup
    { [err |-> "nil",
       vs |-> <<ValidatorOf(otherNodeID, 0, MaxTime), ValidatorOf(theNodeID, 0, MaxTime)>>] }

\* ---- authorize

\* A GetTx answer: the call's error, whether the bytes unmarshal, the type of
\* the transaction and of its owner, and the owner.
SubnetTx(err, decodes, isCreateSubnetTx, isOutputOwners, owner) ==
    [err |-> err, decodes |-> decodes, isCreateSubnetTx |-> isCreateSubnetTx,
     isOutputOwners |-> isOutputOwners, owner |-> owner]

SubnetTxResponses ==
    { SubnetTx("ErrGetTx", FALSE, FALSE, FALSE, OwnersOne),
      SubnetTx("nil", FALSE, FALSE, FALSE, OwnersOne),
      SubnetTx("nil", TRUE, FALSE, FALSE, OwnersOne),
      SubnetTx("nil", TRUE, TRUE, FALSE, OwnersOne) }
    \cup
    { SubnetTx("nil", TRUE, TRUE, TRUE, o) :
        o \in {OwnersOne, OwnersTwo, OwnersOther, OwnersLocked} }

authorizeResult(auth, sgn, err) == [auth |-> auth, signers |-> sgn, err |-> err]

\* k.Match(owner, now) and what authorize makes of it.
authorizeMatch(owner, m) ==
    IF ~m.ok THEN authorizeResult(<<>>, <<>>, "ErrCantSign")
    ELSE authorizeResult(m.sigs, SpendSigners(owner, m.sigs), "nil")

authorize(tb, nowv) ==
    IF tb.err # "nil" THEN authorizeResult(<<>>, <<>>, tb.err)
    ELSE IF ~tb.decodes THEN authorizeResult(<<>>, <<>>, "ErrUnmarshal")
    ELSE IF ~tb.isCreateSubnetTx THEN authorizeResult(<<>>, <<>>, "ErrWrongTxType")
    ELSE IF ~tb.isOutputOwners THEN authorizeResult(<<>>, <<>>, "ErrUnknownOwners")
    ELSE authorizeMatch(tb.owner, match(tb.owner, nowv))

\* ---- the checks of the four actions

\* The checks of the IDs passed.
emptyIDCheck(name, args) ==
    IF name = "AddSubnetValidator" /\ (args.subnetID = Empty \/ args.nodeID = Empty)
    THEN "ErrEmptyID"
    ELSE IF name = "AddValidator" /\ args.nodeID = Empty
    THEN "ErrEmptyID"
    ELSE IF name = "CreateBlockchain" /\ (args.subnetID = Empty \/ args.vmID = Empty)
    THEN "ErrEmptyID"
    ELSE "nil"

\* The step after the checks of the IDs.
firstCall(name) ==
    IF name = "AddSubnetValidator" THEN "lookupSubnet"
    ELSE IF name = "AddValidator" THEN "lookupPrimary"
    ELSE "fee"

\* AddSubnetValidator, on the error of the subnet's lookup.
subnetLookupIgnored(err) == "nil"

subnetLookupCheck(err) ==
    IF ~errorsIs(err, "ErrValidatorNotFound") THEN "ErrAlreadySubnetValidator"
    ELSE "nil"

\* AddSubnetValidator, on the requested window and the primary network's,
\* with the start alone compared.
periodCheckStartOnly(start, end, validateStart, validateEnd) ==
    IF start < validateStart THEN "ErrInvalidSubnetValidatePeriod" ELSE "nil"

\* AddSubnetValidator, on the requested window and the primary network's.
periodCheck(start, end, validateStart, validateEnd) ==
    IF start < validateStart THEN "ErrInvalidSubnetValidatePeriod"
    ELSE IF end > validateEnd THEN "ErrInvalidSubnetValidatePeriod"
    ELSE "nil"

\* AddSubnetValidator, on the primary network's lookup.
primaryLookupCheck(args, v) ==
    IF errorsIs(v.err, "ErrValidatorNotFound") THEN "ErrNotValidatingPrimaryNetwork"
    ELSE IF v.err # "nil" THEN v.err
    ELSE periodCheck(args.start, args.end, v.start, v.end)

\* AddValidator, on the error of the primary network's lookup.
addValidatorLookupCheck(err) ==
    IF err = "nil" THEN "ErrAlreadyValidator"
    ELSE IF ~errorsIs(err, "ErrValidatorNotFound") THEN err
    ELSE "nil"

\* The lookup of the primary network, by action.
lookupCheck(name, args, v) ==
    IF name = "AddValidator" THEN addValidatorLookupCheck(v.err)
    ELSE primaryLookupCheck(args, v)

\* AddValidator's stake amount: the option, or the network's default.
defaultStakeAmt(stakeAmtv, network) ==
    IF stakeAmtv # 0 THEN stakeAmtv
    ELSE IF network = "mainnet" THEN 2000 * Djtx
    ELSE IF network \in {"local", "tahoe"} THEN 1 * Djtx
    ELSE stakeAmtv

\* The stake target and the fee handed to stake.
opStakeAmt(name, args, network) ==
    IF name = "AddValidator" THEN defaultStakeAmt(args.stakeAmt, network) ELSE 0
opFee(name, txFee) == IF name = "AddValidator" THEN 0 ELSE txFee

\* The fee an action reads from the GetTxFee answer.
feeOf(name, fi) ==
    IF name = "CreateSubnet" THEN fi.CreateSubnetTxFee
    ELSE IF name = "CreateBlockchain" THEN fi.CreateBlockchainTxFee
    ELSE fi.TxFee

TxFeeResponses ==
    [TxFee : 0..MaxAmount, CreateSubnetTxFee : 0..MaxAmount,
     CreateBlockchainTxFee : 0..MaxAmount]

\* Whether the action authorizes against a subnet.
subnetScoped(name) == name \in {"AddSubnetValidator", "CreateBlockchain"}

\* Where an action goes once Sign has succeeded and SyntacticVerify returned
\* err, when the error is not looked at.
afterVerifyUnchecked(name, args, err) == "issue"

\* Where an action goes once Sign has succeeded and SyntacticVerify returned
\* err.
afterVerify(name, args, err) ==
    IF err # "nil" THEN "return err"
    ELSE IF name = "CreateSubnet" /\ args.dryMode THEN "return ID"
    ELSE "issue"

\* The ID compared with the local one after IssueTx.
issuedCheck(name, txID, localID) ==
    IF name = "CreateSubnet" /\ txID # localID THEN "ErrUnexpectedSubnetID" ELSE "nil"

\* The poll an action ends with.
pollOf(name) ==
    IF name = "CreateSubnet" THEN "PollSubnet"
    ELSE IF name = "CreateBlockchain" THEN "PollBlockchain"
    ELSE "PollTx"

\* Whether the action polls after IssueTx.
polls(name, args) == name # "CreateBlockchain" \/ args.poll

\* The ID returned with an error met before IssueTx's answer is accepted.
idOnIssue(name, localID) == IF name = "CreateSubnet" THEN localID ELSE Empty
\* The ID returned at the end.
idAtEnd(name, txID) ==
    IF name \in {"CreateSubnet", "CreateBlockchain"} THEN txID ELSE Empty

\* ---- SpecOps: one call of an operator action

\* The ID of the signed transaction, and another one.
localTxID == "tx"
otherTxID == "another tx"

\* An entry of the trace of calls.
Call(step, arg, ok) == [step |-> step, arg |-> arg, ok |-> ok]

\* The arguments and options of a call.  AddValidator copies start and end
\* into the transaction and reads them nowhere else; the weight of
\* AddSubnetValidator, the chain name and the genesis are copied likewise.
OpArgs(name) ==
    IF name = "CreateSubnet"
    THEN [subnetID : {Empty}, nodeID : {Empty}, vmID : {Empty}, start : {0},
          end : {0}, stakeAmt : {0}, dryMode : BOOLEAN, poll : BOOLEAN]
    ELSE IF name = "AddValidator"
    THEN [subnetID : {Empty}, nodeID : {Empty, theNodeID}, vmID : {Empty},
          start : {0}, end : {MaxTime}, stakeAmt : 0..MaxAmount,
          dryMode : BOOLEAN, poll : BOOLEAN]
    ELSE IF name = "AddSubnetValidator"
    THEN [subnetID : {Empty, theSubnetID}, nodeID : {Empty, theNodeID},
          vmID : {Empty}, start : Times, end : Times, stakeAmt : {0},
          dryMode : BOOLEAN, poll : BOOLEAN]
    ELSE [subnetID : {Empty, theSubnetID}, nodeID : {Empty},
          vmID : {Empty, theVMID}, start : {0}, end : {0}, stakeAmt : {0},
          dryMode : BOOLEAN, poll : BOOLEAN]

\* The network name is read by AddValidator alone.
OpNetworks(name) == IF name = "AddValidator" THEN NetworkNames ELSE {"local"}

OpsInit ==
    /\ OthersIdle("ops")
    /\ opName \in OpNames
    /\ opArgs \in OpArgs(opName)
    /\ networkName \in OpNetworks(opName)
    /\ opPC = "args"
    /\ opTrace = <<>>
    /\ opSubnetVdr = [start |-> 0, end |-> 0, err |-> "none"]
    /\ opPrimaryVdr = [start |-> 0, end |-> 0, err |-> "none"]
    /\ opTxFee = 0
    /\ opTx = [ins |-> <<>>, outs |-> <<>>, stake |-> <<>>, signers |-> <<>>,
               auth |-> <<>>, creds |-> <<>>]
    /\ opLocalID = "none"
    /\ opTxID = "none"
    /\ opRet = [id |-> "", err |-> "none"]

\* The call returns.
OpReturn(id, err) ==
    /\ opRet' = [id |-> id, err |-> err]
    /\ opPC' = "done"

\* The call goes on to step pc.
OpGoto(pc) ==
    /\ opPC' = pc
    /\ UNCHANGED opRet

\* The checks of the IDs passed.
OpCheckArgs ==
    /\ opPC = "args"
    /\ IF emptyIDCheck(opName, opArgs) # "nil"
       THEN OpReturn(Empty, emptyIDCheck(opName, opArgs))
       ELSE OpGoto(firstCall(opName))
    /\ UNCHANGED <<opName, opArgs, networkName, opTrace, opSubnetVdr, opPrimaryVdr,
                   opTxFee, opTx, opLocalID, opTxID>>
    /\ UNCHANGED notOpsVars

OpLookedUpSubnet(resp, v) ==
    /\ opSubnetVdr' = v
    /\ opTrace' = Append(opTrace, Call("GetCurrentValidators",
                                       validatorScope(opArgs.subnetID),
                                       resp.err = "nil"))
    /\ IF subnetLookupCheck(v.err) # "nil"
       THEN OpReturn(Empty, subnetLookupCheck(v.err))
       ELSE OpGoto("lookupPrimary")

\* AddSubnetValidator looks the node up among the subnet's validators.
OpLookupSubnet ==
    /\ opPC = "lookupSubnet"
    /\ \E resp \in ValidatorResponses :
          OpLookedUpSubnet(resp, GetValidator(resp, opArgs.nodeID))
    /\ UNCHANGED <<opName, opArgs, networkName, opPrimaryVdr, opTxFee, opTx,
                   opLocalID, opTxID>>
    /\ UNCHANGED notOpsVars

OpLookedUpPrimary(resp, v) ==
    /\ opPrimaryVdr' = v
    /\ opTrace' = Append(opTrace, Call("GetCurrentValidators",
                                       validatorScope(Empty), resp.err = "nil"))
    /\ IF lookupCheck(opName, opArgs, v) # "nil"
       THEN OpReturn(Empty, lookupCheck(opName, opArgs, v))
       ELSE OpGoto(IF opName = "AddValidator" THEN "stake" ELSE "fee")

\* AddValidator and AddSubnetValidator look the node up among the primary
\* network's validators.
OpLookupPrimary ==
    /\ opPC = "lookupPrimary"
    /\ \E resp \in ValidatorResponses :
          OpLookedUpPrimary(resp, GetValidator(resp, opArgs.nodeID))
    /\ UNCHANGED <<opName, opArgs, networkName, opSubnetVdr, opTxFee, opTx,
                   opLocalID, opTxID>>
    /\ UNCHANGED notOpsVars

\* The answers to GetTxFee: an error, or the fees.
TxFeeOutcomes ==
    { [err |-> "ErrGetTxFee",
       fi |-> [TxFee |-> 0, CreateSubnetTxFee |-> 0, CreateBlockchainTxFee |-> 0]] }
    \cup { [err |-> "nil", fi |-> f] : f \in TxFeeResponses }

\* CreateSubnet, AddSubnetValidator and CreateBlockchain ask for the fees.
OpGetTxFee ==
    /\ opPC = "fee"
    /\ \E r \in TxFeeOutcomes :
          /\ opTrace' = Append(opTrace, Call("GetTxFee", "", r.err = "nil"))
          /\ IF r.err # "nil"
             THEN OpReturn(Empty, r.err) /\ UNCHANGED opTxFee
             ELSE OpGoto("stake") /\ opTxFee' = feeOf(opName, r.fi)
    /\ UNCHANGED <<opName, opArgs, networkName, opSubnetVdr, opPrimaryVdr, opTx,
                   opLocalID, opTxID>>
    /\ UNCHANGED notOpsVars

\* The node's answers to the GetAtomicUTXOs of an operator action.
OpsUTXOLists == { l \in UTXOLists : Len(l) <= OpsMaxUTXOs }

\* What stake may return to an action: the failure of the fetch or of the
\* parsing, or its result on the UTXOs fetched.
StakeOutcomes(S, F) ==
    { stakeFailed(stakeLocals(<<>>), e) : e \in {"ErrGetAtomicUTXOs", "ErrParseUTXO"} }
    \cup { stake(parsed, S, F, t) : parsed \in OpsUTXOLists, t \in 1..MaxNow }

OpStaked(res) ==
    /\ opTrace' = opTrace \o <<Call("GetAtomicUTXOs", "", res.err # "ErrGetAtomicUTXOs"),
                               Call("stake", "", res.err = "nil")>>
    /\ IF res.err # "nil"
       THEN OpReturn(Empty, res.err) /\ UNCHANGED opTx
       ELSE /\ OpGoto(IF subnetScoped(opName) THEN "authorize" ELSE "sign")
            /\ opTx' = [ins |-> res.ins, outs |-> res.returnedOuts,
                        stake |-> IF opName = "AddValidator" THEN res.stakedOuts
                                  ELSE <<>>,
                        signers |-> res.signers, auth |-> <<>>, creds |-> <<>>]

\* The action selects its coins; AddValidator first settles its stake amount
\* and its fee.
OpStake ==
    /\ opPC = "stake"
    /\ \E res \in StakeOutcomes(opStakeAmt(opName, opArgs, networkName),
                                opFee(opName, opTxFee)) : OpStaked(res)
    /\ opArgs' = IF opName = "AddValidator"
                 THEN [opArgs EXCEPT !.stakeAmt = defaultStakeAmt(opArgs.stakeAmt,
                                                                  networkName)]
                 ELSE opArgs
    /\ opTxFee' = opFee(opName, opTxFee)
    /\ UNCHANGED <<opName, networkName, opSubnetVdr, opPrimaryVdr, opLocalID, opTxID>>
    /\ UNCHANGED notOpsVars

\* authorize has returned, its signer set left out of the list.
OpAuthorizedDropsSigners(tb, a) ==
    /\ opTrace' = opTrace \o <<Call("GetTx", opArgs.subnetID, tb.err = "nil"),
                               Call("authorize", opArgs.subnetID, a.err = "nil")>>
    /\ IF a.err # "nil"
       THEN OpReturn(Empty, a.err) /\ UNCHANGED opTx
       ELSE /\ OpGoto("sign")
            /\ opTx' = [opTx EXCEPT !.auth = a.auth]

\* authorize has returned: its signer set goes last in the list.
OpAuthorized(tb, a) ==
    /\ opTrace' = opTrace \o <<Call("GetTx", opArgs.subnetID, tb.err = "nil"),
                               Call("authorize", opArgs.subnetID, a.err = "nil")>>
    /\ IF a.err # "nil"
       THEN OpReturn(Empty, a.err) /\ UNCHANGED opTx
       ELSE /\ OpGoto("sign")
            /\ opTx' = [opTx EXCEPT !.signers = Append(opTx.signers, a.signers),
                                    !.auth = a.auth]

\* AddSubnetValidator and CreateBlockchain authorize against the subnet.
OpAuthorize ==
    /\ opPC = "authorize"
    /\ \E tb \in SubnetTxResponses, t \in 1..MaxNow : OpAuthorized(tb, authorize(tb, t))
    /\ UNCHANGED <<opName, opArgs, networkName, opSubnetVdr, opPrimaryVdr, opTxFee,
                   opLocalID, opTxID>>
    /\ UNCHANGED notOpsVars

\* The credentials Sign attaches for a list of signer sets: one credential
\* for each set, of one signature for each of its signers.
SignCreds(sgn) == [i \in 1..Len(sgn) |-> [Sigs |-> Len(sgn[i])]]

\* k.Sign(pTx, signers): the key signs, or fails to.
OpSign ==
    /\ opPC = "sign"
    /\ \E e \in {"nil", "ErrSign"} :
          /\ opTrace' = Append(opTrace, Call("Sign", "", e = "nil"))
          /\ IF e # "nil"
             THEN OpReturn(Empty, e) /\ UNCHANGED <<opLocalID, opTx>>
             ELSE /\ OpGoto("verify")
                  /\ opLocalID' = localTxID
                  /\ opTx' = [opTx EXCEPT !.creds = SignCreds(opTx.signers)]
    /\ UNCHANGED <<opName, opArgs, networkName, opSubnetVdr, opPrimaryVdr, opTxFee,
                   opTxID>>
    /\ UNCHANGED notOpsVars

OpVerified(next, e) ==
    IF next = "return err" THEN OpReturn(Empty, e)
    ELSE IF next = "return ID" THEN OpReturn(opLocalID, "nil")
    ELSE OpGoto("issue")

\* utx.SyntacticVerify, and the return of CreateSubnet in dry mode.
OpVerify ==
    /\ opPC = "verify"
    /\ \E e \in {"nil", "ErrSyntacticVerify"} :
          /\ opTrace' = Append(opTrace, Call("SyntacticVerify", "", e = "nil"))
          /\ OpVerified(afterVerify(opName, opArgs, e), e)
    /\ UNCHANGED <<opName, opArgs, networkName, opSubnetVdr, opPrimaryVdr, opTxFee,
                   opTx, opLocalID, opTxID>>
    /\ UNCHANGED notOpsVars

\* The answers to IssueTx: an error, or the ID of the transaction as the node
\* has it.
IssueTxOutcomes ==
    { [err |-> "ErrIssueTx", txID |-> Empty] }
    \cup { [err |-> "nil", txID |-> id] : id \in {localTxID, otherTxID} }

OpIssued(r) ==
    /\ opTrace' = Append(opTrace, Call("IssueTx", "", r.err = "nil"))
    /\ opTxID' = r.txID
    /\ IF r.err # "nil"
       THEN OpReturn(idOnIssue(opName, opLocalID), r.err)
       ELSE IF issuedCheck(opName, r.txID, opLocalID) # "nil"
       THEN OpReturn(idOnIssue(opName, opLocalID),
                     issuedCheck(opName, r.txID, opLocalID))
       ELSE IF polls(opName, opArgs)
       THEN OpGoto("poll")
       ELSE OpReturn(idAtEnd(opName, r.txID), "nil")

\* The signed transaction is sent to the node.
OpIssueTx ==
    /\ opPC = "issue"
    /\ \E r \in IssueTxOutcomes : OpIssued(r)
    /\ UNCHANGED <<opName, opArgs, networkName, opSubnetVdr, opPrimaryVdr, opTxFee,
                   opTx, opLocalID>>
    /\ UNCHANGED notOpsVars

\* PollSubnet, PollTx or PollBlockchain ends, with or without an error.
OpPoll ==
    /\ opPC = "poll"
    /\ \E e \in {"nil", "ErrPoll"} :
          /\ opTrace' = Append(opTrace, Call(pollOf(opName), "", e = "nil"))
          /\ OpReturn(idAtEnd(opName, opTxID), e)
    /\ UNCHANGED <<opName, opArgs, networkName, opSubnetVdr, opPrimaryVdr, opTxFee,
                   opTx, opLocalID, opTxID>>
    /\ UNCHANGED notOpsVars

OpsNext ==
    \/ OpCheckArgs
    \/ OpLookupSubnet
    \/ OpLookupPrimary
    \/ OpGetTxFee
    \/ OpStake
    \/ OpAuthorize
    \/ OpSign
    \/ OpVerify
    \/ OpIssueTx
    \/ OpPoll

SpecOps == OpsInit /\ [][OpsNext]_vars

-----------------------------------------------------------------------------
(* Properties of the operator actions, checked under SpecOps.              *)

\* The call has made the step, and the step has succeeded.
Made(step) == \E k \in 1..Len(opTrace) : opTrace[k].step = step
Succeeded(step) == \E k \in 1..Len(opTrace) : opTrace[k].step = step /\ opTrace[k].ok

\* The call has returned an error.
OpFailedWith(err) == opPC = "done" /\ opRet.err = err

\* The steps that build a transaction, and the order an action takes them in.
BuildSteps == {"stake", "authorize", "Sign", "SyntacticVerify"}
BuildOrder(name) ==
    IF subnetScoped(name) THEN <<"stake", "authorize", "Sign", "SyntacticVerify">>
    ELSE <<"stake", "Sign", "SyntacticVerify">>

\* The build steps among the first k entries of the trace.
BuildStepsBefore(k) ==
    SelectSeq(SubSeq(opTrace, 1, k), LAMBDA c : c.step \in BuildSteps)

\* C4: IssueTx is called only after, in this call and in this order, stake,
\* authorize (for AddSubnetValidator and CreateBlockchain), Sign and
\* SyntacticVerify have each succeeded; once one of these steps has failed the
\* call has returned an error and has not called IssueTx.
C4_IssueOnlyAfterBuild ==
    /\ \A k \in 1..Len(opTrace) :
          opTrace[k].step = "IssueTx" =>
             /\ [i \in 1..Len(BuildStepsBefore(k - 1)) |-> BuildStepsBefore(k - 1)[i].step]
                    = BuildOrder(opName)
             /\ \A i \in 1..Len(BuildStepsBefore(k - 1)) : BuildStepsBefore(k - 1)[i].ok
    /\ (\E k \in 1..Len(opTrace) : opTrace[k].step \in BuildSteps /\ ~opTrace[k].ok) =>
          /\ ~Made("IssueTx")
          /\ opPC = "done"
          /\ opRet.err \notin {"nil", "none"}

\* CreateBlockchain has authorized and has had its transaction accepted.
C4_Witness ==
    /\ opName = "CreateBlockchain"
    /\ Succeeded("authorize")
    /\ Succeeded("IssueTx")

\* The requested window lies within the one the primary network's lookup
\* returned.
WindowWithin ==
    /\ opPrimaryVdr.start <= opArgs.start
    /\ opArgs.end <= opPrimaryVdr.end

\* C8: AddSubnetValidator asks for the fee, selects coins, signs or submits
\* only if the lookup found the node validating the primary network over a
\* window [vStart, vEnd] with vStart <= start and end <= vEnd; when the lookup
\* finds no such validator the call fails with ErrNotValidatingPrimaryNetwork,
\* and when start < vStart or end > vEnd with ErrInvalidSubnetValidatePeriod,
\* both without a UTXO fetch or an IssueTx.
C8_SubnetValidatorWindow ==
    opName = "AddSubnetValidator" =>
       /\ (Made("GetTxFee") \/ Made("GetAtomicUTXOs") \/ Made("Sign") \/ Made("IssueTx")) =>
             (opPrimaryVdr.err = "nil" /\ WindowWithin)
       /\ opPrimaryVdr.err = "ErrValidatorNotFound" =>
             /\ OpFailedWith("ErrNotValidatingPrimaryNetwork")
             /\ ~Made("GetAtomicUTXOs")
             /\ ~Made("IssueTx")
       /\ (opPrimaryVdr.err = "nil" /\ ~WindowWithin) =>
             /\ OpFailedWith("ErrInvalidSubnetValidatePeriod")
             /\ ~Made("GetAtomicUTXOs")
             /\ ~Made("IssueTx")

\* AddSubnetValidator has submitted for a window strictly inside the primary
\* network's.
C8_Witness ==
    /\ opName = "AddSubnetValidator"
    /\ Succeeded("IssueTx")
    /\ opPrimaryVdr.start < opArgs.start
    /\ opArgs.end < opPrimaryVdr.end

\* C9: when the lookup finds the node already validating the primary network
\* (AddValidator) or the given subnet (AddSubnetValidator), the call fails
\* with ErrAlreadyValidator or ErrAlreadySubnetValidator, and has fetched no
\* UTXO, signed nothing and submitted nothing.
C9_AlreadyValidating ==
    /\ (opName = "AddValidator" /\ opPrimaryVdr.err = "nil") =>
          /\ OpFailedWith("ErrAlreadyValidator")
          /\ ~Made("GetAtomicUTXOs") /\ ~Made("Sign") /\ ~Made("IssueTx")
    /\ (opName = "AddSubnetValidator" /\ opSubnetVdr.err = "nil") =>
          /\ OpFailedWith("ErrAlreadySubnetValidator")
          /\ ~Made("GetAtomicUTXOs") /\ ~Made("Sign") /\ ~Made("IssueTx")

\* AddSubnetValidator has found the node among the subnet's validators.
C9_Witness ==
    /\ opName = "AddSubnetValidator"
    /\ opSubnetVdr.err = "nil"
    /\ opPC = "done"

\* C10: in each of the four actions, once the node has accepted the
\* transaction under an ID other than the local one, the call has returned
\* ErrUnexpectedSubnetID and polls nothing.
C10_MismatchIsError ==
    (Succeeded("IssueTx") /\ opTxID # opLocalID) =>
       /\ OpFailedWith("ErrUnexpectedSubnetID")
       /\ ~Made("PollSubnet") /\ ~Made("PollTx") /\ ~Made("PollBlockchain")

\* The calls that go to the node, and the error a failure of each is.
NetworkCalls == {"GetCurrentValidators", "GetTxFee", "GetAtomicUTXOs", "GetTx", "IssueTx"}
NetworkError(step) ==
    IF step = "GetCurrentValidators" THEN "ErrGetCurrentValidators"
    ELSE IF step = "GetTxFee" THEN "ErrGetTxFee"
    ELSE IF step = "GetAtomicUTXOs" THEN "ErrGetAtomicUTXOs"
    ELSE IF step = "GetTx" THEN "ErrGetTx"
    ELSE "ErrIssueTx"

\* The lookup failed, and not because the validator was not found.
LookupFailed(v) == v.err \notin {"none", "nil", "ErrValidatorNotFound"}

\* C11: once a call to the node has failed, the action has returned an error
\* that is or wraps that failure; a lookup that failed for another reason than
\* validator-not-found is not returned as ErrAlreadyValidator or
\* ErrAlreadySubnetValidator.
C11_NetworkErrorsPropagate ==
    /\ \A k \in 1..Len(opTrace) :
          (opTrace[k].step \in NetworkCalls /\ ~opTrace[k].ok) =>
             OpFailedWith(NetworkError(opTrace[k].step))
    /\ (LookupFailed(opSubnetVdr) \/ LookupFailed(opPrimaryVdr)) =>
          opRet.err \notin {"ErrAlreadyValidator", "ErrAlreadySubnetValidator"}
-----------------------------------------------------------------------------
(* The confirmation checker: PollTx, as the operator actions call it once   *)
(* IssueTx has answered.                                                    *)

\* Latest tick at which a caller's deadline falls.
MaxTicks == 4

\* The statuses the node reports for a transaction.
TxStatuses == {"NotFound", "Processing", "Dropped", "Committed", "Aborted"}

\* A status the checker returns on, with Committed alone taken as one.
terminalCommittedOnly(status) == status = "Committed"

\* A status the checker returns on.
terminal(status) == status \in {"Committed", "Aborted"}

\* The caller's signal as seen at the start of the polling alone.
signalFiredAtStart(clock, deadline, cancelled) ==
    clock = 0 /\ (cancelled \/ clock >= deadline)

\* The caller's signal has fired: the deadline has passed or the call was
\* cancelled.
signalFired(clock, deadline, cancelled) == cancelled \/ clock >= deadline

\* The outcome the signal gives.
signalOutcome(cancelled) == IF cancelled THEN "Cancelled" ELSE "TimedOut"

\* PollTx is entered: the caller's context carries a deadline.
PollInit ==
    /\ OthersIdle("poll")
    /\ pollPC = "wait"
    /\ pollLog = <<>>
    /\ pollClock = 0
    /\ pollDeadline \in 0..MaxTicks
    /\ pollCancelled = FALSE
    /\ pollOutcome = "none"

\* The status is in: the checker returns on a terminal one, and waits again
\* on any other.
PollPolled(status) ==
    /\ pollLog' = Append(pollLog, status)
    /\ IF terminal(status)
       THEN pollPC' = "done" /\ pollOutcome' = status
       ELSE pollPC' = "wait" /\ UNCHANGED pollOutcome

\* The tick comes before the signal: the checker asks the node for the status.
PollTick ==
    /\ pollPC = "wait"
    /\ pollClock < MaxTicks
    /\ ~signalFired(pollClock, pollDeadline, pollCancelled)
    /\ pollClock' = pollClock + 1
    /\ \E status \in TxStatuses : PollPolled(status)
    /\ UNCHANGED <<pollDeadline, pollCancelled>>
    /\ UNCHANGED notPollVars

\* The signal comes before the tick: the checker returns its outcome.
PollAbort ==
    /\ pollPC = "wait"
    /\ signalFired(pollClock, pollDeadline, pollCancelled)
    /\ pollPC' = "done"
    /\ pollOutcome' = signalOutcome(pollCancelled)
    /\ UNCHANGED <<pollLog, pollClock, pollDeadline, pollCancelled>>
    /\ UNCHANGED notPollVars

\* The caller cancels.
PollCancel ==
    /\ pollPC = "wait"
    /\ ~pollCancelled
    /\ pollCancelled' = TRUE
    /\ UNCHANGED <<pollPC, pollLog, pollClock, pollDeadline, pollOutcome>>
    /\ UNCHANGED notPollVars

PollNext ==
    \/ PollTick
    \/ PollAbort
    \/ PollCancel

SpecPoll == PollInit /\ [][PollNext]_vars

\* The checker is scheduled: it is not left waiting forever.
SpecPollLive == SpecPoll /\ WF_vars(PollTick) /\ WF_vars(PollAbort)

\* C12: the checker polls once per tick and returns at the first tick whose
\* status is Committed or Aborted; any other status leads to one more wait and
\* poll, so that the statuses NotFound, NotFound, Committed end in Committed
\* after exactly three polls.
C12_ReturnsAtFirstTerminal ==
    /\ Len(pollLog) = pollClock
    /\ \A k \in 1..(Len(pollLog) - 1) : pollLog[k] \notin {"Committed", "Aborted"}
    /\ (pollLog # <<>> /\ pollLog[Len(pollLog)] \in {"Committed", "Aborted"}) =>
          (pollPC = "done" /\ pollOutcome = pollLog[Len(pollLog)])
    /\ (pollLog # <<>> /\ pollLog[Len(pollLog)] \notin {"Committed", "Aborted"}) =>
          pollOutcome \notin {"Committed", "Aborted"}
    /\ pollOutcome \in {"Committed", "Aborted"} =>
          (pollLog # <<>> /\ pollLog[Len(pollLog)] = pollOutcome)
    /\ (Len(pollLog) >= 3 /\ pollLog[1] = "NotFound" /\ pollLog[2] = "NotFound"
           /\ pollLog[3] = "Committed") =>
          (pollLog = <<"NotFound", "NotFound", "Committed">>
              /\ pollPC = "done" /\ pollOutcome = "Committed")

\* The checker has returned Committed on the third poll.
C12_Witness ==
    /\ pollLog = <<"NotFound", "NotFound", "Committed">>
    /\ pollOutcome = "Committed"
    /\ pollClock = 3

\* C13: once the caller's deadline has passed or the call is cancelled, the
\* checker polls no more and what it returns is TimedOut or Cancelled; under
\* a deadline it returns in the end, whatever the statuses.
C13_ObservesSignal ==
    /\ [][(pollCancelled \/ pollClock >= pollDeadline) =>
            (pollLog' = pollLog
               /\ (pollPC' = "done" /\ pollPC # "done" =>
                      pollOutcome' \in {"TimedOut", "Cancelled"}))]_vars
    /\ <>(pollPC = "done")

\* The checker has timed out after statuses that were never terminal.
C13_Witness ==
    /\ pollOutcome = "TimedOut"
    /\ Len(pollLog) = 2
    /\ pollDeadline = 2
-----------------------------------------------------------------------------
(* The hardware key: NewHard, and the loop of InitClient that lets the      *)
(* operator pick an account index.                                          *)

\* Last account index the operator may move on to.
MaxIndex == 9

\* InitClient reaches its loop over the account indices.
HardInit ==
    /\ OthersIdle("hard")
    /\ hardPC = "newHard"
    /\ hardIdx = 0
    /\ hardOpen = {}
    /\ hardRet = "none"

\* A step of NewHard or of the loop that may fail: on err the call returns it,
\* and goes on to step pc otherwise.
HardStep(err, pc) ==
    IF err # "nil"
    THEN hardPC' = "done" /\ hardRet' = err
    ELSE hardPC' = pc /\ UNCHANGED hardRet

\* NewHard: ledger.Connect.
HardConnect ==
    /\ hardPC = "newHard"
    /\ \E err \in {"nil", "ErrConnect"} :
          /\ HardStep(err, "address")
          /\ hardOpen' = IF err = "nil" THEN hardOpen \cup {hardIdx} ELSE hardOpen
    /\ UNCHANGED hardIdx
    /\ UNCHANGED notHardVars

\* NewHard: the address is derived on the device.
HardAddress ==
    /\ hardPC = "address"
    /\ \E err \in {"nil", "ErrAddress"} : HardStep(err, "format")
    /\ UNCHANGED <<hardIdx, hardOpen>>
    /\ UNCHANGED notHardVars

\* NewHard: formatting.FormatAddress, and the return of the key.
HardFormat ==
    /\ hardPC = "format"
    /\ \E err \in {"nil", "ErrFormatAddress"} : HardStep(err, "balance")
    /\ UNCHANGED <<hardIdx, hardOpen>>
    /\ UNCHANGED notHardVars

\* InitClient: the balance of the key is fetched.
HardBalance ==
    /\ hardPC = "balance"
    /\ \E err \in {"nil", "ErrGetBalance"} : HardStep(err, "prompt")
    /\ UNCHANGED <<hardIdx, hardOpen>>
    /\ UNCHANGED notHardVars

\* InitClient: the operator continues with the key, tries the next address,
\* or the prompt fails.
HardPrompt ==
    /\ hardPC = "prompt"
    /\ \E answer \in {"continue", "next", "ErrPrompt"} :
          IF answer = "continue" THEN hardPC' = "done" /\ hardRet' = "nil"
          ELSE IF answer = "next" THEN hardIdx < MaxIndex /\ HardStep("nil", "disconnect")
          ELSE HardStep(answer, "disconnect")
    /\ UNCHANGED <<hardIdx, hardOpen>>
    /\ UNCHANGED notHardVars

\* InitClient: the key left behind is disconnected, and the next index tried.
\* A Disconnect that fails may or may not have closed the connection.
HardDisconnect ==
    /\ hardPC = "disconnect"
    /\ \E err \in {"nil", "ErrDisconnect"}, closed \in BOOLEAN :
          /\ err = "nil" => closed
          /\ HardStep(err, "newHard")
          /\ hardOpen' = IF closed THEN hardOpen \ {hardIdx} ELSE hardOpen
          /\ hardIdx' = IF err = "nil" THEN hardIdx + 1 ELSE hardIdx
    /\ UNCHANGED notHardVars

HardNext ==
    \/ HardConnect
    \/ HardAddress
    \/ HardFormat
    \/ HardBalance
    \/ HardPrompt
    \/ HardDisconnect

SpecHard == HardInit /\ [][HardNext]_vars

\* C14: when NewHard or the selection loop has returned an error no device
\* connection is open, and none is open for an account index the operator has
\* moved on from.
C14_ClosedOnError ==
    /\ (hardPC = "done" /\ hardRet # "nil") => hardOpen = {}
    /\ \A j \in hardOpen : j >= hardIdx
-----------------------------------------------------------------------------
(* HardKey.Sign.                                                            *)

\* Most credentials a call asks for.
MaxSigs == 3

\* The bytes of the unsigned transaction, and of the transaction with its
\* credentials creds.
MarshalUnsigned == <<"utx">>
MarshalTx(creds) == <<"utx">> \o creds

\* The transactions Sign is handed: not signed yet, or signed before.
SignableTxs ==
    { [Creds |-> <<>>, unsignedBytes |-> <<>>, bytes |-> <<>>],
      [Creds |-> <<"old sig">>, unsignedBytes |-> MarshalUnsigned,
       bytes |-> MarshalTx(<<"old sig">>)],
      [Creds |-> <<"old sig", "old sig">>, unsignedBytes |-> MarshalUnsigned,
       bytes |-> MarshalTx(<<"old sig", "old sig">>)] }

SignInit ==
    /\ OthersIdle("sign")
    /\ signPC = "marshal"
    /\ signSigs \in 0..MaxSigs
    /\ signTx \in SignableTxs
    /\ signBefore = signTx
    /\ signSig = "none"
    /\ signRet = "none"

\* The credential attached sigs times to creds.
RECURSIVE attachCreds(_, _, _)
attachCreds(creds, cred, sigs) ==
    IF sigs <= 0 THEN creds ELSE attachCreds(Append(creds, cred), cred, sigs - 1)

\* A step of Sign that may fail.
SignStep(err, pc) ==
    IF err # "nil"
    THEN signPC' = "done" /\ signRet' = err
    ELSE signPC' = pc /\ UNCHANGED signRet

\* The unsigned transaction is marshalled.
SignMarshalUnsigned ==
    /\ signPC = "marshal"
    /\ \E err \in {"nil", "ErrMarshalUnsignedTx"} : SignStep(err, "hash")
    /\ UNCHANGED <<signSigs, signTx, signBefore, signSig>>
    /\ UNCHANGED notSignVars

\* The device signs the hash.
SignSignHash ==
    /\ signPC = "hash"
    /\ \E r \in { [err |-> "ErrSignHash", sig |-> "none"],
                  [err |-> "nil", sig |-> "sig 1"], [err |-> "nil", sig |-> "sig 2"] } :
          /\ SignStep(r.err, "attach")
          /\ signSig' = r.sig
    /\ UNCHANGED <<signSigs, signTx, signBefore>>
    /\ UNCHANGED notSignVars

\* The credential is attached sigs times, the transaction marshalled and, when
\* that succeeds, initialized with its bytes.
SignAttach ==
    /\ signPC = "attach"
    /\ \E err \in {"nil", "ErrMarshalTx"} :
          /\ signPC' = "done"
          /\ signRet' = err
          /\ signTx' =
               IF err # "nil"
               THEN [signTx EXCEPT !.Creds = attachCreds(signTx.Creds, signSig, signSigs)]
               ELSE [Creds |-> attachCreds(signTx.Creds, signSig, signSigs),
                     unsignedBytes |-> MarshalUnsigned,
                     bytes |-> MarshalTx(attachCreds(signTx.Creds, signSig, signSigs))]
    /\ UNCHANGED <<signSigs, signBefore, signSig>>
    /\ UNCHANGED notSignVars

SignNext ==
    \/ SignMarshalUnsigned
    \/ SignSignHash
    \/ SignAttach

SpecSign == SignInit /\ [][SignNext]_vars

\* C15: when Sign has returned an error the credentials and the bytes of the
\* transaction are what they were when it was called; when it has returned
\* without one, every credential asked for is attached and the signed bytes
\* are those of the transaction with them.
C15_SignIsAtomic ==
    /\ (signPC = "done" /\ signRet # "nil") => signTx = signBefore
    /\ (signPC = "done" /\ signRet = "nil") =>
          /\ Len(signTx.Creds) = Len(signBefore.Creds) + signSigs
          /\ signTx.bytes = MarshalTx(signTx.Creds)

\* C16: once stake has returned, with or without an error, every UTXO object of
\* the snapshot, its output field included, is what was parsed from the
\* node's response.
C16_SnapshotUntouched == stakePC = "done" => utxos = ubs

-----------------------------------------------------------------------------
(* SpecLoad: one call of LoadSoft on a key file. Bytes are their ASCII     *)
(* codes.                                                                  *)

\* The longest run of bytes after the key material of a modelled file.
MaxTail == 3

privKeySize == 64
fileEndLimit == 1

\* "PrivateKey-"
privKeyEncPfx == <<80, 114, 105, 118, 97, 116, 101, 75, 101, 121, 45>>

\* The digits of CB58: 1-9, A-H, J-N, P-Z, a-k, m-z.
Base58Alphabet ==
    (49..57) \cup (65..72) \cup (74..78) \cup (80..90) \cup (97..107) \cup (109..122)

\* encoding/hex: the bytes 0-9, a-f, A-F and their values.
IsHex(b) == b \in (48..57) \cup (97..102) \cup (65..70)

fromHexChar(c) ==
    IF c \in 48..57 THEN c - 48
    ELSE IF c \in 97..102 THEN c - 97 + 10
    ELSE c - 65 + 10

\* hex.DecodeString on an even number of hex digits: one byte per pair.
DecodeString(buf) ==
    [i \in 1..(Len(buf) \div 2) |->
        fromHexChar(buf[2 * i - 1]) * 16 + fromHexChar(buf[2 * i])]

\* The prefix occurs in s at position i.
prefixAt(s, i) ==
    /\ i + Len(privKeyEncPfx) - 1 <= Len(s)
    /\ SubSeq(s, i, i + Len(privKeyEncPfx) - 1) = privKeyEncPfx

\* s without its part of the prefix's length at position i.
cutAt(s, i) == SubSeq(s, 1, i - 1) \o SubSeq(s, i + Len(privKeyEncPfx), Len(s))

\* strings.Replace(enc, privKeyEncPfx, "", 1): the first occurrence goes.
ReplacePfx(enc) ==
    IF \E i \in 1..Len(enc) : prefixAt(enc, i)
    THEN cutAt(enc, CHOOSE i \in 1..Len(enc) :
                      /\ prefixAt(enc, i)
                      /\ \A j \in 1..(i - 1) : ~prefixAt(enc, j))
    ELSE enc

\* What NewSoft needs of an encoded key to return it: the text without the
\* prefix is made of CB58 digits (whether its checksum verifies is not
\* computed here: it is the caller's choice below), and encoding the decoded
\* key gives the text back, which starts with the prefix.
encodedMayLoad(enc) ==
    /\ Len(ReplacePfx(enc)) > 0
    /\ \A i \in 1..Len(ReplacePfx(enc)) : ReplacePfx(enc)[i] \in Base58Alphabet
    /\ enc = privKeyEncPfx \o ReplacePfx(enc)

\* readASCII stops on a byte below '!'.
stopsASCIIBelowLetters(b) == b < 65
stopsASCII(b) == b < 33

\* readASCII into a buffer of privKeySize bytes, n bytes read so far: the
\* number of bytes read when it returns.
RECURSIVE readASCII(_, _)
readASCII(kb, n) ==
    IF n >= privKeySize THEN n
    ELSE IF n + 1 > Len(kb) THEN n
    ELSE IF stopsASCII(kb[n + 1]) THEN n
    ELSE readASCII(kb, n + 1)

\* checkKeyFileEnd on the byte b read in iteration idx: the error it returns,
\* or "nil" to go on.
endByteAlwaysLength(b, idx) ==
    IF b # 10 /\ b # 13 THEN "ErrInvalidPrivateKeyLen"
    ELSE IF idx > fileEndLimit THEN "ErrInvalidPrivateKeyLen"
    ELSE "nil"
endByte(b, idx) ==
    IF b # 10 /\ b # 13 THEN "ErrInvalidPrivateKeyEnding"
    ELSE IF idx > fileEndLimit THEN "ErrInvalidPrivateKeyLen"
    ELSE "nil"

NoKey == [via |-> "none", raw |-> <<>>, enc |-> <<>>]

\* The keys keyFactory.NewPrivateKey may generate.
GeneratedKeys == { [i \in 1..(privKeySize \div 2) |-> b] : b \in {1, 2} }

\* The key material of the modelled files: none, one byte short, or full
\* size, of 'a', '0', 'F' or 'z'.
KeyBodies ==
    { [i \in 1..n |-> c] : c \in {97, 48, 70, 122},
                           n \in {0, privKeySize - 1, privKeySize} }

\* What follows it: '\n', '\r', ' ', 'a', 'z'.
KeyTails == UNION { [1..n -> {10, 13, 32, 97, 122}] : n \in 0..MaxTail }

KeyFiles ==
    { p \o b \o t : p \in {<<>>, privKeyEncPfx}, b \in KeyBodies, t \in KeyTails }

LoadInit ==
    /\ OthersIdle("load")
    /\ loadFile \in KeyFiles
    /\ loadPC = "read"
    /\ loadN = 0
    /\ loadIdx = 0
    /\ loadKey = NoKey
    /\ loadRet = "none"

\* LoadSoft returns key k and error e.
LoadReturn(k, e) ==
    /\ loadKey' = k
    /\ loadRet' = e
    /\ loadPC' = "done"
    /\ UNCHANGED <<loadFile, loadN, loadIdx>>
    /\ UNCHANGED notLoadVars

\* ioutil.ReadFile.
LoadReadFile ==
    /\ loadPC = "read"
    /\ \/ LoadReturn(NoKey, "ErrReadFile")
       \/ /\ loadPC' = "encoded"
          /\ UNCHANGED <<loadFile, loadN, loadIdx, loadKey, loadRet>>
          /\ UNCHANGED notLoadVars

\* NewSoft(networkID, WithPrivateKeyEncoded(string(kb))): an empty text has a
\* new key generated; an encoded key is returned; on any error LoadSoft goes on.
LoadEncoded ==
    /\ loadPC = "encoded"
    /\ \/ /\ Len(loadFile) = 0
          /\ \E raw \in GeneratedKeys :
                LoadReturn([via |-> "generated", raw |-> raw, enc |-> <<>>], "nil")
       \/ /\ Len(loadFile) > 0
          /\ encodedMayLoad(loadFile)
          /\ LoadReturn([via |-> "encoded", raw |-> <<>>, enc |-> ReplacePfx(loadFile)],
                        "nil")
       \/ /\ Len(loadFile) > 0
          /\ loadPC' = "ascii"
          /\ UNCHANGED <<loadFile, loadN, loadIdx, loadKey, loadRet>>
          /\ UNCHANGED notLoadVars

\* readASCII and the test of its count.
LoadReadASCII ==
    /\ loadPC = "ascii"
    /\ IF readASCII(loadFile, 0) # privKeySize
       THEN LoadReturn(NoKey, "ErrInvalidPrivateKeyLen")
       ELSE /\ loadN' = readASCII(loadFile, 0)
            /\ loadPC' = "end"
            /\ UNCHANGED <<loadFile, loadIdx, loadKey, loadRet>>
            /\ UNCHANGED notLoadVars

\* One iteration of checkKeyFileEnd, idx left where it is.
LoadCheckEndUncounted ==
    /\ loadPC = "end"
    /\ IF loadN + 1 > Len(loadFile)
       THEN /\ loadPC' = "decode"
            /\ UNCHANGED <<loadFile, loadN, loadIdx, loadKey, loadRet>>
            /\ UNCHANGED notLoadVars
       ELSE IF endByte(loadFile[loadN + 1], loadIdx) # "nil"
       THEN LoadReturn(NoKey, endByte(loadFile[loadN + 1], loadIdx))
       ELSE /\ loadN' = loadN + 1
            /\ UNCHANGED <<loadFile, loadIdx, loadPC, loadKey, loadRet>>
            /\ UNCHANGED notLoadVars

\* One iteration of checkKeyFileEnd.
LoadCheckEnd ==
    /\ loadPC = "end"
    /\ IF loadN + 1 > Len(loadFile)
       THEN /\ loadPC' = "decode"
            /\ UNCHANGED <<loadFile, loadN, loadIdx, loadKey, loadRet>>
            /\ UNCHANGED notLoadVars
       ELSE IF endByte(loadFile[loadN + 1], loadIdx) # "nil"
       THEN LoadReturn(NoKey, endByte(loadFile[loadN + 1], loadIdx))
       ELSE /\ loadN' = loadN + 1
            /\ loadIdx' = loadIdx + 1
            /\ UNCHANGED <<loadFile, loadPC, loadKey, loadRet>>
            /\ UNCHANGED notLoadVars

\* hex.DecodeString, keyFactory.ToPrivateKey and NewSoft with the key.
LoadDecode ==
    /\ loadPC = "decode"
    /\ IF \E i \in 1..privKeySize : ~IsHex(loadFile[i])
       THEN LoadReturn(NoKey, "ErrInvalidByte")
       ELSE LoadReturn([via |-> "hex",
                        raw |-> DecodeString(SubSeq(loadFile, 1, privKeySize)),
                        enc |-> <<>>], "nil")

LoadNext ==
    \/ LoadReadFile
    \/ LoadEncoded
    \/ LoadReadASCII
    \/ LoadCheckEnd
    \/ LoadDecode

SpecLoad == LoadInit /\ [][LoadNext]_vars

\* LoadSoft has returned after reading the file.
Loaded == loadPC = "done" /\ loadRet # "ErrReadFile"

\* The file is privKeySize hex digits and one '\n'.
HexAndNewline ==
    /\ Len(loadFile) = privKeySize + 1
    /\ \A i \in 1..privKeySize : IsHex(loadFile[i])
    /\ loadFile[privKeySize + 1] = 10

\* C17: a key file of exactly 64 hex digits and exactly one newline byte is
\* loaded without error, and the key's raw bytes are the 32 bytes its digits
\* decode to, two digits a byte, the high one first.
C17_HexFileLoads ==
    (Loaded /\ HexAndNewline) =>
        /\ loadRet = "nil"
        /\ Len(loadKey.raw) = 32
        /\ \A i \in 1..Len(loadKey.raw) :
              loadKey.raw[i] = 16 * fromHexChar(loadFile[2 * i - 1])
                               + fromHexChar(loadFile[2 * i])

C17_Witness ==
    Loaded /\ HexAndNewline /\ loadRet = "nil" /\ loadKey.via = "hex"
           /\ loadKey.raw[1] = 170

\* The file starts with exactly 65 hex digits.
SixtyFiveHex ==
    /\ Len(loadFile) >= privKeySize + 1
    /\ \A i \in 1..(privKeySize + 1) : IsHex(loadFile[i])
    /\ Len(loadFile) > privKeySize + 1 => ~IsHex(loadFile[privKeySize + 2])

-----------------------------------------------------------------------------
(* SpecGv: one call of GetValidator.                                       *)

\* The longest list of records in an answer to GetCurrentValidators.
MaxRecords == 2

\* The values a time field of a record may have: the digits of a time, a
\* string that is no number, or no string.
TimeValues ==
    { JSONString(Digits(t)) : t \in {0, MaxTime} }
    \cup { JSONString(<<NonDigit>>), JSONOther }

NodeIDValues ==
    { JSONString(PrefixedString(id, NodeIDPrefix)) : id \in {theNodeID, otherNodeID} }
    \cup { JSONOther }

ValidatorRecords ==
    { ValidatorEntry(n, s, e) : n \in NodeIDValues, s \in TimeValues, e \in TimeValues }
    \cup { NotAMap }

GvInit ==
    /\ OthersIdle("gv")
    /\ gvNode \in {theNodeID, otherNodeID}
    /\ gvResp = [err |-> "nil", vs |-> <<>>]
    /\ gvRet = [start |-> 0, end |-> 0, err |-> "none"]
    /\ gvPC = "call"

\* pc.Client().GetCurrentValidators fails or answers.
GvCurrentValidators ==
    /\ gvPC = "call"
    /\ \/ gvResp' = [err |-> "ErrGetCurrentValidators", vs |-> <<>>]
       \/ \E n \in 0..MaxRecords : \E vs \in [1..n -> ValidatorRecords] :
             gvResp' = [err |-> "nil", vs |-> vs]
    /\ gvPC' = "answered"
    /\ UNCHANGED <<gvNode, gvRet>>
    /\ UNCHANGED notGvVars

\* The rest of GetValidator, to its return.
GvReturn ==
    /\ gvPC = "answered"
    /\ gvRet' = GetValidator(gvResp, gvNode)
    /\ gvPC' = "done"
    /\ UNCHANGED <<gvNode, gvResp>>
    /\ UNCHANGED notGvVars

GvNext ==
    \/ GvCurrentValidators
    \/ GvReturn

SpecGv == GvInit /\ [][GvNext]_vars

\* A record with its three fields, each a string, the times in decimal.
WellFormed(v) ==
    /\ v.isMap
    /\ v.nodeID.isString
    /\ v.startTime.isString /\ ParseInt(v.startTime.s).err = "nil"
    /\ v.endTime.isString /\ ParseInt(v.endTime.s).err = "nil"

\* A record lacking a string nodeID, startTime or endTime.
LacksString(v) ==
    ~v.isMap \/ ~v.nodeID.isString \/ ~v.startTime.isString \/ ~v.endTime.isString

\* The record is the requested node's.
IsNodes(v) ==
    v.isMap /\ v.nodeID.isString /\ v.nodeID.s = PrefixedString(gvNode, NodeIDPrefix)

\* GetValidator has returned on an answer of the node.
GvAnswered == gvPC = "done" /\ gvResp.err = "nil"

\* On an answer of well-formed records, not-found is returned exactly when no
\* record is the node's, and otherwise the times of a record of the node.
GvWellFormedContract ==
    (GvAnswered /\ \A i \in 1..Len(gvResp.vs) : WellFormed(gvResp.vs[i])) =>
        IF \A i \in 1..Len(gvResp.vs) : ~IsNodes(gvResp.vs[i])
        THEN gvRet.err = "ErrValidatorNotFound"
        ELSE /\ gvRet.err = "nil"
             /\ \E i \in 1..Len(gvResp.vs) :
                   /\ IsNodes(gvResp.vs[i])
                   /\ gvRet.start = ParseInt(gvResp.vs[i].startTime.s).v
                   /\ gvRet.end = ParseInt(gvResp.vs[i].endTime.s).v

\* C19: on an answer whose records are all well-formed, GetValidator returns
\* ErrValidatorNotFound if and only if no record is the requested node's (an
\* empty answer included) and otherwise the start and end time of the node's
\* record; on an answer with a record that lacks a string nodeID, startTime
\* or endTime it returns ErrInvalidValidatorData.
C19_GetValidatorContract ==
    /\ GvWellFormedContract
    /\ (GvAnswered /\ \E i \in 1..Len(gvResp.vs) : LacksString(gvResp.vs[i])) =>
          gvRet.err = "ErrInvalidValidatorData"

\* Record i of the answer is the first of the requested node's, and the
\* records before it are maps with a string nodeID.
FirstOfNode(i) ==
    /\ IsNodes(gvResp.vs[i])
    /\ \A j \in 1..(i - 1) :
          /\ gvResp.vs[j].isMap
          /\ gvResp.vs[j].nodeID.isString
          /\ ~IsNodes(gvResp.vs[j])

\* Record i is no map or lacks a string nodeID, and no record before it is
\* the requested node's.
BadBeforeNode(i) ==
    /\ ~gvResp.vs[i].isMap \/ ~gvResp.vs[i].nodeID.isString
    /\ \A j \in 1..(i - 1) : ~IsNodes(gvResp.vs[j])

\* Record i lacks a string startTime, or has a decimal startTime and lacks a
\* string endTime.
LacksTime(i) ==
    \/ ~gvResp.vs[i].startTime.isString
    \/ /\ ParseInt(gvResp.vs[i].startTime.s).err = "nil"
       /\ ~gvResp.vs[i].endTime.isString

\* C19, amended: on an answer whose records are all well-formed, GetValidator
\* returns ErrValidatorNotFound if and only if no record is the requested
\* node's and otherwise the times of the node's record; it returns
\* ErrInvalidValidatorData when a record met before the node's is no map or
\* lacks a string nodeID, and when the first record of the node lacks a string
\* startTime or, its startTime being decimal, a string endTime.
C19_GetValidatorInspects ==
    /\ GvWellFormedContract
    /\ (GvAnswered /\ \E i \in 1..Len(gvResp.vs) : BadBeforeNode(i)) =>
          gvRet.err = "ErrInvalidValidatorData"
    /\ (GvAnswered /\ \E i \in 1..Len(gvResp.vs) : FirstOfNode(i) /\ LacksTime(i)) =>
          gvRet.err = "ErrInvalidValidatorData"

C19_Witness ==
    /\ GvAnswered
    /\ Len(gvResp.vs) = 2
    /\ FirstOfNode(2)
    /\ ~gvResp.vs[2].startTime.isString
    /\ gvRet.err = "ErrInvalidValidatorData"

-----------------------------------------------------------------------------
(* SpecRace: two operator actions of one key, each a call of stake on the  *)
(* UTXOs it fetched, and the node that commits their transactions.         *)

Actions == {1, 2}
Other(c) == 3 - c

\* The UTXOs the key may hold on the node at the start: unlocked outputs of
\* the fee asset owned by the key, no UTXO ID twice.
RaceUTXOs ==
    { [UTXOID |-> id, Asset |-> assetID, Out |-> TransferOutput(a, OwnersOne)] :
        id \in UTXOIDs, a \in 1..MaxAmount }

RaceLiveSets ==
    { live \in SUBSET RaceUTXOs :
        /\ live # {}
        /\ \A u, v \in live : u.UTXOID = v.UTXOID => u = v }

\* The UTXO IDs of a list of inputs or of a set of UTXOs.
InputIDs(inputs) == { inputs[k].UTXOID : k \in 1..Len(inputs) }
LiveIDs(live) == { u.UTXOID : u \in live }

\* The UTXOs a committed transaction of action c creates from its outputs.
Created(c, outs) ==
    { [UTXOID |-> [TxID |-> <<2, c>>, OutputIndex |-> k - 1],
       Asset |-> outs[k].Asset, Out |-> outs[k].Out] : k \in 1..Len(outs) }

\* The node's UTXO set once the transaction of action c is committed: the
\* consumed UTXOs are gone, the outputs are new UTXOs.
committedLiveKeepsSpent(live, c, inputs, outs) == live \cup Created(c, outs)
committedLive(live, c, inputs, outs) ==
    { u \in live : u.UTXOID \notin InputIDs(inputs) } \cup Created(c, outs)

RaceInit ==
    /\ OthersIdle("race")
    /\ raceLive \in RaceLiveSets
    /\ racePC = <<"start", "start">>
    /\ raceSnap = <<<<>>, <<>>>>
    /\ raceIns = <<<<>>, <<>>>>
    /\ raceOuts = <<<<>>, <<>>>>
    /\ raceAfter = <<FALSE, FALSE>>

\* GetAtomicUTXOs in action c: the node answers with its UTXOs of the key, in
\* some order. No lock is taken and the other action is not looked at.
RaceFetch(c) ==
    /\ racePC[c] = "start"
    /\ \E s \in [1..Cardinality(raceLive) -> raceLive] :
          /\ Range(s) = raceLive
          /\ raceSnap' = [raceSnap EXCEPT ![c] = s]
    /\ raceAfter' = [raceAfter EXCEPT ![c] = (racePC[Other(c)] = "committed")]
    /\ racePC' = [racePC EXCEPT ![c] = "fetched"]
    /\ UNCHANGED <<raceLive, raceIns, raceOuts>>
    /\ UNCHANGED notRaceVars

\* Action c has stake return r.
RaceSelected(c, r) ==
    /\ raceIns' = [raceIns EXCEPT ![c] = r.ins]
    /\ raceOuts' = [raceOuts EXCEPT ![c] = r.returnedOuts]
    /\ racePC' = [racePC EXCEPT ![c] = IF r.err = "nil" THEN "built" ELSE "failed"]

\* The two loops of stake in action c on its snapshot, for a fee.
RaceSelect(c) ==
    /\ racePC[c] = "fetched"
    /\ \E f \in 1..MaxAmount : RaceSelected(c, stake(raceSnap[c], 0, f, 1))
    /\ UNCHANGED <<raceLive, raceSnap, raceAfter>>
    /\ UNCHANGED notRaceVars

\* IssueTx in action c: the node takes the transaction when its inputs are
\* UTXOs it has.
RaceIssue(c) ==
    /\ racePC[c] = "built"
    /\ racePC' = [racePC EXCEPT ![c] =
          IF InputIDs(raceIns[c]) \subseteq LiveIDs(raceLive)
          THEN "issued" ELSE "rejected"]
    /\ UNCHANGED <<raceLive, raceSnap, raceIns, raceOuts, raceAfter>>
    /\ UNCHANGED notRaceVars

\* The node commits the transaction of action c.
RaceCommit(c) ==
    /\ racePC[c] = "issued"
    /\ InputIDs(raceIns[c]) \subseteq LiveIDs(raceLive)
    /\ raceLive' = committedLive(raceLive, c, raceIns[c], raceOuts[c])
    /\ racePC' = [racePC EXCEPT ![c] = "committed"]
    /\ UNCHANGED <<raceSnap, raceIns, raceOuts, raceAfter>>
    /\ UNCHANGED notRaceVars

\* The node drops the transaction of action c, an input being spent.
RaceAbort(c) ==
    /\ racePC[c] = "issued"
    /\ ~(InputIDs(raceIns[c]) \subseteq LiveIDs(raceLive))
    /\ racePC' = [racePC EXCEPT ![c] = "aborted"]
    /\ UNCHANGED <<raceLive, raceSnap, raceIns, raceOuts, raceAfter>>
    /\ UNCHANGED notRaceVars

RaceNext ==
    \/ \E c \in Actions : RaceFetch(c)
    \/ \E c \in Actions : RaceSelect(c)
    \/ \E c \in Actions : RaceIssue(c)
    \/ \E c \in Actions : RaceCommit(c)
    \/ \E c \in Actions : RaceAbort(c)

SpecRace == RaceInit /\ [][RaceNext]_vars

\* Action c has selected its inputs.
HasSelected(c) == racePC[c] \in {"built", "issued", "rejected", "committed", "aborted"}

\* The UTXOs both actions selected as inputs.
SelectedByBoth == InputIDs(raceIns[1]) \cap InputIDs(raceIns[2])

\* C20: a UTXO is selected as an input by both of two actions of a key only
\* when their fetches were interleaved; when either action fetched after the
\* other's transaction was committed, no UTXO is selected by both.
C20_ShareOnlyWhenInterleaved ==
    (HasSelected(1) /\ HasSelected(2) /\ SelectedByBoth # {}) =>
        (~raceAfter[1] /\ ~raceAfter[2])

\* Both actions have selected the same UTXO, their fetches interleaved.
C20_Witness ==
    /\ HasSelected(1) /\ HasSelected(2)
    /\ SelectedByBoth # {}
    /\ ~raceAfter[1] /\ ~raceAfter[2]

-----------------------------------------------------------------------------
(* Further properties of stake, checked under SpecStake.                   *)

\* The locals of stake are live: the loops are running, the final checks are
\* due, or stake has returned its lists.
StakeSelecting == stakePC \in {"pass1", "pass2", "check"} \/ StakeSucceeded

\* C21: at every step of coin selection and on return, the amounts of the
\* inputs selected so far sum to the returned outputs, the staked outputs and
\* the amount burned, and amountStaked <= S and amountBurned <= F.
C21_Accounting ==
    StakeSelecting =>
        /\ InputAmounts(ins) =
              OutputAmounts(returnedOuts) + OutputAmounts(stakedOuts) + amountBurned
        /\ amountStaked <= stakeAmt
        /\ amountBurned <= fee

C21_Witness ==
    /\ stakePC = "pass2"
    /\ Len(ins) = 2
    /\ amountBurned = fee /\ fee > 0
    /\ amountStaked > 0
    /\ returnedOuts # <<>>

\* The fetched UTXO is of the fee asset, stake-locked past the sampled time,
\* and the key satisfies the owners of the output it wraps.
StakeEligible(u) ==
    /\ u.Asset = assetID
    /\ u.Out.type = "StakeableLockOut"
    /\ u.Out.Locktime > now
    /\ u.Out.TransferableOut.type = "TransferOutput"
    /\ match(u.Out.TransferableOut.OutputOwners, now).ok

\* Position i holds the first such UTXO of the response.
FirstEligible(i) ==
    /\ StakeEligible(ubs[i])
    /\ \A j \in 1..(i - 1) : ~StakeEligible(ubs[j])

\* The first loop has just ended.
AfterPass1 == stakePC = "pass2" /\ stakeIdx = 1

\* C22: with S > 0, the first loop consumes a UTXO of the fee asset that is
\* stake-locked past the sampled time and whose owners the key satisfies, and
\* emits a staked output of min(stake still needed, amount of the UTXO) with
\* the lock time and the owners of the consumed output; for the first such
\* UTXO of the list the stake still needed is S.
C22_LockedIsStaked ==
    \A i \in 1..Len(ubs) :
        (AfterPass1 /\ stakeAmt > 0 /\ FirstEligible(i)) =>
            /\ \E k \in 1..Len(ins) : ins[k].UTXOID = ubs[i].UTXOID
            /\ \E k \in 1..Len(stakedOuts) :
                  stakedOuts[k] =
                      TransferableOutput(assetID,
                          StakeableLockOut(ubs[i].Out.Locktime,
                              TransferOutput(
                                  Min64(stakeAmt, ubs[i].Out.TransferableOut.Amt),
                                  ubs[i].Out.TransferableOut.OutputOwners)))

\* The counter is above zero and short of its target.
ShortOf(amount, target) == 0 < amount /\ amount < target

\* C23: at the end of coin selection stake fails with
\* ErrInsufficientBalanceForStakeAmount exactly when 0 < amountStaked < S,
\* and otherwise with ErrInsufficientBalanceForGasFee exactly when
\* 0 < amountBurned < F; on either failure the four returned lists are empty.
C23_FinalChecks ==
    StakeRanToEnd =>
        /\ stakeErr = "ErrInsufficientBalanceForStakeAmount"
              <=> ShortOf(amountStaked, stakeAmt)
        /\ stakeErr = "ErrInsufficientBalanceForGasFee"
              <=> (~ShortOf(amountStaked, stakeAmt) /\ ShortOf(amountBurned, fee))
        /\ stakeErr # "nil" =>
              ins = <<>> /\ returnedOuts = <<>> /\ stakedOuts = <<>> /\ signers = <<>>

C23_Witness ==
    /\ StakeRanToEnd
    /\ stakeErr = "ErrInsufficientBalanceForStakeAmount"
    /\ amountBurned = fee /\ fee > 0
    /\ ins = <<>>

-----------------------------------------------------------------------------
(* SpecSp: one call of Spends with a target amount.                        *)

\* Longest list of UTXOs given to Spends.
SpendsMaxUTXOs == 3

\* The outputs of the UTXOs given: spendable by the key, owned by another,
\* time-locked, and of a type Spends makes no input from.
SpendsOuts ==
    { TransferOutput(a, OwnersOne) : a \in 1..MaxAmount }
    \cup { TransferOutput(1, OwnersOther), TransferOutput(1, OwnersLocked),
           MintOutput(OwnersOne) }

SpendsUTXOs ==
    { [UTXOID |-> id, Asset |-> assetID, Out |-> o] : id \in UTXOIDs, o \in SpendsOuts }

\* Lists of UTXOs, no UTXO ID twice, whose amounts sum to a uint64.
SpendsLists ==
    UNION { { s \in [1..n -> SpendsUTXOs] :
                /\ \A a, b \in 1..n : a < b => s[a].UTXOID # s[b].UTXOID
                /\ SumSeq([k \in 1..n |-> OutAmount(s[k].Out)]) <= MaxUint64 } :
            n \in 0..SpendsMaxUTXOs }

SpInit ==
    /\ OthersIdle("sp")
    /\ spOutputs \in SpendsLists
    /\ spTime \in 1..MaxNow
    /\ spTarget \in 1..MaxUint64
    /\ spFeeDeduct \in 0..MaxUint64
    /\ spRet = [total |-> 0, inputs |-> <<>>, signers |-> <<>>]
    /\ spPC = "call"

\* Spends, from its loop to its return.
SpReturn ==
    /\ spPC = "call"
    /\ spRet' = Spends(spOutputs, spTime, spTarget, spFeeDeduct)
    /\ spPC' = "done"
    /\ UNCHANGED <<spOutputs, spTime, spTarget, spFeeDeduct>>
    /\ UNCHANGED notSpVars

SpNext == SpReturn

SpecSp == SpInit /\ [][SpNext]_vars

\* The key can spend the UTXO at position k of the list given.
CanSpend(k) == spend(spOutputs[k], spTime).err = "nil"

\* The amounts of the UTXOs the key can spend among the first n.
Accumulated(n) ==
    SumSeq([k \in 1..n |-> IF CanSpend(k) THEN OutAmount(spOutputs[k].Out) ELSE 0])

\* The first n UTXOs are the shortest prefix whose spendable amount exceeds
\* targetAmount + feeDeduct, or the whole list when no prefix does.
ShortestPrefix(n) ==
    /\ \A m \in 0..(n - 1) : Accumulated(m) <= spTarget + spFeeDeduct
    /\ Accumulated(n) > spTarget + spFeeDeduct \/ n = Len(spOutputs)

\* Spends has returned inputs for the UTXOs the key can spend among the first
\* n, and their total.
ReturnedPrefix(n) ==
    /\ InputIDs(spRet.inputs) = { spOutputs[k].UTXOID : k \in { j \in 1..n : CanSpend(j) } }
    /\ Len(spRet.inputs) = Cardinality({ j \in 1..n : CanSpend(j) })
    /\ spRet.total = InputAmounts(spRet.inputs)

\* C24: given a target amount > 0, Spends returns inputs for exactly the
\* shortest prefix of the UTXOs the key can spend whose accumulated amount
\* exceeds targetAmount + feeDeduct, or for all it can spend when no prefix
\* does; the others are skipped, and the total returned is the sum of the
\* amounts of the inputs returned.
C24_ShortestPrefix ==
    spPC = "done" =>
        \E n \in 0..Len(spOutputs) : ShortestPrefix(n) /\ ReturnedPrefix(n)

-----------------------------------------------------------------------------
(* Further properties of the operator actions, checked under SpecOps.      *)

\* The signer set of n signatures by the key.
KeySigners(n) == [k \in 1..n |-> shortAddr]

\* The signer sets before the subnet authorization's are the inputs', one
\* for each input in order.
InputSignerSets ==
    \A i \in 1..Len(opTx.ins) :
        /\ i <= Len(opTx.signers)
        /\ opTx.signers[i] = KeySigners(Len(opTx.ins[i].In.SigIndices))

-----------------------------------------------------------------------------
(* Further properties of LoadSoft, checked under SpecLoad.                 *)

\* The file starts with privKeySize hex digits.
StartsWithKey ==
    /\ Len(loadFile) >= privKeySize
    /\ \A i \in 1..privKeySize : IsHex(loadFile[i])

\* The byte at position i after the key is '\n' or '\r'.
LineEndingAt(i) == loadFile[privKeySize + i] \in {10, 13}

\* The number of line-ending bytes that follow the key at once.
EndingRun ==
    CHOOSE n \in 0..(Len(loadFile) - privKeySize) :
        /\ \A i \in 1..n : LineEndingAt(i)
        /\ n = Len(loadFile) - privKeySize \/ ~LineEndingAt(n + 1)

\* What LoadSoft makes of the bytes after the key when it lets at most limit
\* line-ending bytes follow it: a longer run is ErrInvalidPrivateKeyLen,
\* another byte after a run within the limit is ErrInvalidPrivateKeyEnding,
\* and a run within the limit that ends the file is accepted.
EndingContract(limit) ==
    (Loaded /\ StartsWithKey) =>
        IF EndingRun > limit THEN loadRet = "ErrInvalidPrivateKeyLen"
        ELSE IF privKeySize + EndingRun < Len(loadFile)
        THEN loadRet = "ErrInvalidPrivateKeyEnding"
        ELSE loadRet = "nil"

\* C26, as stated: after the 64 hex digits LoadSoft accepts at most
\* fileEndLimit line-ending bytes; a longer run of them is rejected with
\* ErrInvalidPrivateKeyLen and any other byte with ErrInvalidPrivateKeyEnding.
C26_AtMostLimitEndings == EndingContract(fileEndLimit)

\* C26, amended: after the 64 hex digits LoadSoft accepts at most
\* fileEndLimit + 1 line-ending bytes; a longer run of them is rejected with
\* ErrInvalidPrivateKeyLen, and any other byte met before that with
\* ErrInvalidPrivateKeyEnding.
C26_AtMostLimitPlusOneEndings == EndingContract(fileEndLimit + 1)

C26_Witness ==
    /\ Loaded /\ StartsWithKey
    /\ EndingRun = fileEndLimit + 2
    /\ loadRet = "ErrInvalidPrivateKeyLen"

-----------------------------------------------------------------------------
(* Which UTXOs the two loops of stake consume, checked under SpecStake.     *)

\* The fetched UTXO u is stake-locked at the clock value read for the call.
StakeLocked(u) == u.Out.type = "StakeableLockOut" /\ u.Out.Locktime > now

\* This step of a loop appends an input.
Consumes(pc) == stakePC = pc /\ Len(ins') = Len(ins) + 1

\* The fetched UTXO the input appended by this step spends.
Consumed == FetchedUTXO(ins'[Len(ins')].UTXOID)

\* No UTXO ID twice among the inputs, and the fee asset only.
InputsDistinct ==
    /\ \A a, b \in 1..Len(ins) : a # b => ins[a].UTXOID # ins[b].UTXOID
    /\ \A k \in 1..Len(ins) :
          /\ ins[k].Asset = assetID
          /\ \E u \in Range(ubs) : u.UTXOID = ins[k].UTXOID /\ u.Asset = assetID

\* What a step of either loop may consume: the first loop a UTXO of the fee
\* asset that is stake-locked, the second loop one that is not, neither a
\* UTXO that is among the inputs already.
ConsumesItsOwn ==
    /\ Consumes("pass1") => Consumed.Asset = assetID /\ StakeLocked(Consumed)
    /\ Consumes("pass2") => Consumed.Asset = assetID /\ ~StakeLocked(Consumed)
    /\ Consumes("pass1") \/ Consumes("pass2") =>
          /\ Consumed = ubs[stakeIdx]
          /\ Consumed.UTXOID \notin InputIDs(ins)

\* C27: within one call of stake no UTXO is consumed twice: the first loop
\* consumes only UTXOs of the fee asset whose stake lock lies after the clock
\* value read once for the call, the second loop only UTXOs of the fee asset
\* that are not so locked, and the inputs hold each UTXO ID at most once and
\* no UTXO of another asset.
C27_NoUTXOTwice == [](InputsDistinct) /\ [][ConsumesItsOwn]_vars

\* stake succeeds on a response that holds a stake-locked UTXO of the fee
\* asset, which it has left alone, and one it has consumed.
C27_Witness ==
    /\ StakeSucceeded
    /\ Len(ins) = 1
    /\ \E u \in Range(ubs) : u.Asset = assetID /\ StakeLocked(u)
                              /\ u.UTXOID \notin InputIDs(ins)

-----------------------------------------------------------------------------
(* The dry mode of the operator actions, checked under SpecOps.            *)

\* The calls that wait for a transaction to be accepted.
PollCalls == {"PollSubnet", "PollTx", "PollBlockchain"}

\* C28: with the dry-mode option set, an operator action builds, signs and
\* verifies its transaction but never calls IssueTx and never polls, and
\* CreateSubnet then returns the subnet ID computed locally.
C28_DryModeNeverIssues ==
    (opName \in OpNames /\ opArgs.dryMode) =>
        /\ ~Made("IssueTx")
        /\ \A step \in PollCalls : ~Made(step)
        /\ (opName = "CreateSubnet" /\ Succeeded("SyntacticVerify")) =>
              opPC = "done" /\ opRet = [id |-> opLocalID, err |-> "nil"]

-----------------------------------------------------------------------------
(* SpecWait: one call of WaitValidator (SpecWaitLive with fairness).       *)

MaxNodes == 2
MaxTries == 2

\* The node ID lists WaitValidator is called with.
WaitNodeLists ==
    UNION { [1..n -> {theNodeID, otherNodeID}] : n \in 0..MaxNodes }

\* What GetValidator may answer: a window, or one of its errors.
WaitLookups ==
    { validatorResult(s, MaxTime, "nil") : s \in {0, MaxTime} }
    \cup
    { validatorError(e) : e \in {"ErrValidatorNotFound", "ErrGetCurrentValidators",
                                  "ErrInvalidValidatorData"} }

\* What the inner loop does with the err of a lookup when only a missing
\* validator is waited for.
waitAfterNotFoundOnly(err) ==
    IF err = "ErrValidatorNotFound" THEN "sleep" ELSE "break"

\* What the inner loop does with the err of a lookup.
waitAfter(err) == IF err = "nil" THEN "break" ELSE "sleep"

\* i.valInfos[nodeID] = &ValInfo{start, end}
setValInfo(infos, nodeID, v) ==
    { r \in infos : r.nodeID # nodeID }
    \cup { [nodeID |-> nodeID, start |-> v.start, end |-> v.end] }

\* The windows after a lookup that succeeded: kept for the primary network
\* only.
waitRecorded(infos, subnetID, nodeID, v) ==
    IF subnetID = Empty THEN setValInfo(infos, nodeID, v) ELSE infos

\* Where the call is once the range is at position i.
waitRange(nodeIDs, i) == IF i > Len(nodeIDs) THEN "done" ELSE "lookup"

WaitInit ==
    /\ OthersIdle("wait")
    /\ waitNodes \in WaitNodeLists
    /\ waitSubnet \in {Empty, theSubnetID}
    /\ valInfos = {}
    /\ waitIdx = 1
    /\ waitTries = 0
    /\ waitPolled = {}
    /\ waitFound = {}
    /\ waitPC = waitRange(waitNodes, 1)

\* The lookup has answered v with no error: the break, and the next node.
WaitBreak(v) ==
    /\ valInfos' = waitRecorded(valInfos, waitSubnet, waitNodes[waitIdx], v)
    /\ waitIdx' = waitIdx + 1
    /\ waitPC' = waitRange(waitNodes, waitIdx + 1)

\* cli.P().GetValidator(context.Background(), i.subnetID, nodeID) answers.
WaitLookup ==
    /\ waitPC = "lookup"
    /\ waitPolled' = waitPolled \cup {waitIdx}
    /\ \E v \in WaitLookups :
          /\ waitFound' = IF v.err = "nil" THEN waitFound \cup {waitIdx} ELSE waitFound
          /\ waitTries' = IF v.err = "nil" THEN waitTries
                          ELSE Min64(waitTries + 1, MaxTries)
          /\ IF waitAfter(v.err) = "break"
             THEN WaitBreak(v)
             ELSE /\ waitPC' = "sleep"
                  /\ UNCHANGED <<valInfos, waitIdx>>
    /\ UNCHANGED <<waitNodes, waitSubnet>>
    /\ UNCHANGED notWaitVars

\* time.Sleep(10 * time.Second) ends.
WaitSleep ==
    /\ waitPC = "sleep"
    /\ waitPC' = "lookup"
    /\ UNCHANGED <<waitNodes, waitSubnet, valInfos, waitIdx, waitTries, waitPolled,
                   waitFound>>
    /\ UNCHANGED notWaitVars

WaitNext ==
    \/ WaitLookup
    \/ WaitSleep

SpecWait == WaitInit /\ [][WaitNext]_vars

\* The goroutine that runs WaitValidator keeps running: a lookup answers and
\* a sleep ends.
SpecWaitLive == SpecWait /\ WF_vars(WaitLookup) /\ WF_vars(WaitSleep)

-----------------------------------------------------------------------------
(* Properties of WaitValidator, checked under SpecWaitLive.                *)

WaitReturned == waitPC = "done"

\* Every node of the list has had a lookup that succeeded.
AllFound == waitFound = 1..Len(waitNodes)

\* WaitValidator has returned only if every node was found, and a node is
\* looked up only once every node before it was found.
WaitInOrder ==
    /\ WaitReturned => AllFound
    /\ \A j \in waitPolled : \A k \in 1..(j - 1) : k \in waitFound
    /\ waitPC \in {"lookup", "sleep"} =>
          /\ waitIdx \in 1..Len(waitNodes)
          /\ waitFound = 1..(waitIdx - 1)

\* A failed lookup is followed by the sleep and the sleep by a lookup of the
\* same node, however many lookups have failed.
WaitRetries ==
    /\ (waitPC = "lookup" /\ waitIdx \notin waitFound') =>
          waitPC' = "sleep" /\ waitIdx' = waitIdx
    /\ waitPC = "sleep" => waitPC' = "lookup" /\ waitIdx' = waitIdx

\* C29: WaitValidator returns if and only if, node after node in the order of
\* the list, a lookup of the node succeeds: a lookup that fails, whatever its
\* error, is repeated after the sleep with no bound on the retries, so a node
\* that is never found keeps the call from returning and the later nodes from
\* being looked up; until it returns the call comes back to a lookup again
\* and again.
C29_ReturnsIffAllFound ==
    /\ [](WaitInOrder)
    /\ [](AllFound => WaitReturned)
    /\ [][WaitRetries]_vars
    /\ []<>(WaitReturned \/ waitPC = "lookup")

\* The call has returned after MaxTries failed lookups, with a window
\* recorded for each of MaxNodes nodes.
C29_Witness ==
    /\ WaitReturned
    /\ Len(waitNodes) = MaxNodes
    /\ waitTries = MaxTries
    /\ waitSubnet = Empty
    /\ Cardinality(valInfos) = MaxNodes

=============================================================================
